---- MODULE Spec2Model ----
(***************************************************************************)
(* State-machine model of OTreeBridge, the experiment navigation bridge of *)
(* src/otree/public_goods_simple/client/bridge_server.py.                  *)
(*                                                                         *)
(* The bridge runs on one asyncio event loop: every connection has its own *)
(* handle_websocket coroutine, and control passes from one coroutine to    *)
(* another only at an await that really suspends (an HTTP call run with    *)
(* asyncio.to_thread, asyncio.sleep, the wait for the next inbound         *)
(* message).  Each action below is the code one coroutine runs between two *)
(* such suspension points; pc[ws] is the await the coroutine of ws is      *)
(* suspended in.  The experiment application (oTree) is the environment:   *)
(* every HTTP response is chosen nondeterministically.                     *)
(*                                                                         *)
(* The module also models the bridge of src/client/bridge_server.py and    *)
(* the two game servers of src/local_server_examples; the variable bridge  *)
(* says which of the servers is running.                                   *)
(***************************************************************************)
EXTENDS Naturals, Integers, Sequences, FiniteSets, TLC

\* ------------------------------------------------------------------ bounds
\* Inbound messages the model lets the connections receive in total.
MaxMessages == 3
\* Iterations of the navigation loop.  The source runs range(30); the model
\* runs the same loop with a smaller count.
max_attempts == 2
\* attempts of wait_for_results_and_notify (10 in src/client/bridge_server.py)
Client_max_attempts == 4

\* ------------------------------------------------------------ data domains
None == "None"          \* Python None
Missing == "Missing"    \* a key that the inbound JSON object does not have

Conns == {"ws1", "ws2"}           \* websocket connections
Codes == {"A", "B"}               \* participant codes
ParticipantIds == {"7"}           \* participant_id values of well-formed messages

otree_url == "http://localhost:8000"

ContributePath == "/p/Contribute"
ResultsPath == "/p/Results"
WaitPath == "/p/ResultsWaitPage"
OutOfRangePath == "/OutOfRangeNotification"
Paths == {ContributePath, ResultsPath, WaitPath, OutOfRangePath}
\* An action page with two radio inputs of one name and a text input, whose
\* otree-data block has a key "participant_id".
SurveyPath == "/p/Survey"

\* A URL is the base followed by a path; a Location header value is either
\* such an absolute URL or a bare path.
Urls == {<<otree_url, p>> : p \in Paths}
Locations == Urls \cup {<<p>> : p \in Paths}
PathOf(url) == url[Len(url)]

\* The markup the application renders at each path: the names of the inputs
\* under "._formfield" and whether a script#otree-data block is present.
FieldsOf(path) ==
  IF path = ContributePath THEN <<"contribution">>
  ELSE IF path = SurveyPath THEN <<"choice", "choice", "age">>
  ELSE << >>
HasOtreeData(path) == path \in {ContributePath, ResultsPath, SurveyPath}
\* json.loads(otree_data.text).get("participant_id"): the value the page's
\* state payload has under the key participant_id, Missing without the key.
PayloadParticipantId(page) == IF page = SurveyPath THEN "0" ELSE Missing
\* The path whose response carries the oTree-Wait-Page header.
IsWaitPage(path) == path = WaitPath
\* The body of a response that is itself a redirect: no markup.
BlankPage == "blank"
BodyFields(page) == IF page = BlankPage THEN << >> ELSE FieldsOf(page)
BodyHasData(page) == IF page = BlankPage THEN FALSE ELSE HasOtreeData(page)

\* ----------------------------------------------------------- Python dicts
EmptyDict == [k \in {} |-> None]
Put(d, k, v) == [x \in (DOMAIN d) \cup {k} |-> IF x = k THEN v ELSE d[x]]
Del(d, k) == [x \in (DOMAIN d) \ {k} |-> d[x]]
Get(d, k, default) == IF k \in DOMAIN d THEN d[k] ELSE default

\* ------------------------------------------------------------------ state
VARIABLES
  participant_connections,  \* dict code -> websocket
  participant_sessions,     \* dict code -> index into clients
  participant_urls,         \* dict code -> cursor URL
  form_fields,              \* dict code -> field names of the last parsed page
  participant_phases,       \* dict code -> phase counter
  clients,                  \* every requests.Session created: [code, ws, closes,
                            \* participant_id of the join that created it]
  pc,                       \* ws -> the await its coroutine is suspended in
  frame,                    \* ws -> locals of the handler that is suspended
  participant_code,         \* ws -> handle_websocket's local participant_code
  outbox,                   \* ws -> messages delivered on the connection
  received,                 \* inbound messages received so far
  reached,                  \* code -> action pages parsed since the last join
  bridge,                   \* which server of the repository runs
  games,                    \* the game servers' dict game_id -> game
  local                     \* ws -> the game servers' handler locals

registry == <<participant_connections, participant_sessions, participant_urls,
              form_fields, participant_phases, clients>>
vars == <<participant_connections, participant_sessions, participant_urls,
          form_fields, participant_phases, clients, pc, frame,
          participant_code, outbox, received, reached, bridge, games, local>>

\* The locals of a handler suspended in an await.
NoUrl == << >>
NoFrame == [participant_code |-> None, participant_id |-> None, url |-> NoUrl,
            current_url |-> NoUrl, attempt |-> 0, task_data |-> << >>]

\* handle_websocket of the game servers: game = None, player_role = None
\* (player_id = None in the public goods server).
NoLocals == [game |-> None, player |-> None]

\* The registry and the connections before the first message.
Start ==
  /\ participant_connections = EmptyDict
  /\ participant_sessions = EmptyDict
  /\ participant_urls = EmptyDict
  /\ form_fields = EmptyDict
  /\ participant_phases = EmptyDict
  /\ clients = << >>
  /\ pc = [ws \in Conns |-> "idle"]
  /\ frame = [ws \in Conns |-> NoFrame]
  /\ participant_code = [ws \in Conns |-> None]
  /\ outbox = [ws \in Conns |-> << >>]
  /\ received = 0
  /\ reached = [c \in Codes |-> 0]
  /\ games = EmptyDict
  /\ local = [ws \in Conns |-> NoLocals]

\* src/otree/public_goods_simple/client/bridge_server.py is running.
Init == Start /\ bridge = "otree"

\* ------------------------------------------------------- location headers
\* loc.startswith("http"): a Location is a sequence of segments, and these
\* are the first segments that begin with the letters http: the base URL,
\* the origin of another host, and a relative reference such as
\* "httpdocs/p/Survey".
HttpSegments == {otree_url, "https://example.org", "httpdocs"}
StartsWithHttp(loc) == loc[1] \in HttpSegments
\* A resolution that takes only a Location on the application's own origin
\* for absolute.
ResolveLocation_OwnOriginOnly(loc) ==
  IF loc[1] = otree_url THEN loc ELSE <<otree_url>> \o loc

\* next_url = loc if loc.startswith("http") else f"{self.otree_url}{loc}"
ResolveLocation(loc) == IF StartsWithHttp(loc) THEN loc ELSE <<otree_url>> \o loc
\* "OutOfRangeNotification" in redirect_url
IsOutOfRange(url) == PathOf(url) = OutOfRangePath
\* f"{self.otree_url}/InitializeParticipant/{participant_code}"
InitUrl(code) == <<otree_url, "/InitializeParticipant/", code>>

\* -------------------------------------------------------- event publisher
\* A connection is open until its handler has ended (the peer's close is
\* seen by the handler when it waits for the next message).
IsOpen(ws) == pc[ws] # "closed"

\* await websocket.send(...) inside try/except: a message reaches the peer
\* when the connection is open; on a closed connection send raises, and the
\* exception is logged and swallowed.
Deliver(ob, ws, msg) ==
  IF IsOpen(ws) THEN [ob EXCEPT ![ws] = Append(@, msg)] ELSE ob

\* A send_error whose message never reaches the connection.
send_error_Dropped(ob, ws, error_message) == ob

send_error(ob, ws, error_message) ==
  Deliver(ob, ws, [type |-> "error", message |-> error_message])

\* The fields participant_code and session of an event are not on the wire:
\* they record for which participant the bridge emitted the event, and which
\* HTTP client (created by which join) the code was registered with.
SessionOf(code) == Get(participant_sessions, code, 0)
\* state_data = json.loads(otree_data.text); state_data["phase"] = ...;
\* state_data["required_fields"] = ...
StateData(page, phase, fields) ==
  [participant_id |-> PayloadParticipantId(page), phase |-> phase,
   required_fields |-> fields]
\* "data": {"participant_id": participant_id, **state_data}: a key of
\* state_data replaces the key written before it.
PhaseEvent(code, participant_id, state_data) ==
  [type |-> "event", eventType |-> "phase-transition",
   participant_code |-> code, session |-> SessionOf(code),
   participant_id |-> IF state_data.participant_id # Missing
                      THEN state_data.participant_id ELSE participant_id,
   phase |-> state_data.phase, required_fields |-> state_data.required_fields]
ResultEvent(code, page) ==
  [type |-> "event", eventType |-> "round-result",
   participant_code |-> code, session |-> SessionOf(code), page |-> page]
GameOverEvent(code) ==
  [type |-> "event", eventType |-> "game-over",
   participant_code |-> code, session |-> SessionOf(code)]

\* websocket = self.participant_connections.get(code); if not websocket: return
SendToParticipant(ob, code, msg) ==
  IF code \in DOMAIN participant_connections
  THEN Deliver(ob, participant_connections[code], msg)
  ELSE ob

send_phase_update(ob, code, participant_id, state_data) ==
  SendToParticipant(ob, code, PhaseEvent(code, participant_id, state_data))
send_results(ob, code, page) ==
  SendToParticipant(ob, code, ResultEvent(code, page))
send_game_completion(ob, code) ==
  SendToParticipant(ob, code, GameOverEvent(code))

\* ---------------------------------------------------------------- cleanup
\* cleanup_connection as a function of the registry: the five dicts and the
\* HTTP clients (close() is counted per client).
Registry ==
  [participant_connections |-> participant_connections,
   participant_sessions |-> participant_sessions,
   participant_urls |-> participant_urls,
   form_fields |-> form_fields,
   participant_phases |-> participant_phases,
   clients |-> clients]

\* if code in d: del d[code]
DelIfPresent(d, code) == IF code \in DOMAIN d THEN Del(d, code) ELSE d

\* if code in self.participant_sessions:
\*     self.participant_sessions[code].close()
CloseSession(reg, code) ==
  IF code \in DOMAIN reg.participant_sessions
  THEN [reg.clients EXCEPT ![reg.participant_sessions[code]].closes = @ + 1]
  ELSE reg.clients

\* A cleanup that closes the client of the code but keeps its entry in
\* participant_sessions.
cleanup_connection_KeepsSession(reg, code) ==
  IF code \in {None, ""}
  THEN reg
  ELSE [participant_connections |-> DelIfPresent(reg.participant_connections, code),
        participant_sessions |-> reg.participant_sessions,
        participant_urls |-> DelIfPresent(reg.participant_urls, code),
        form_fields |-> DelIfPresent(reg.form_fields, code),
        participant_phases |-> DelIfPresent(reg.participant_phases, code),
        clients |-> CloseSession(reg, code)]

cleanup_connection(reg, code) ==
  IF code \in {None, ""}
  THEN reg
  ELSE [participant_connections |-> DelIfPresent(reg.participant_connections, code),
        participant_sessions |-> DelIfPresent(reg.participant_sessions, code),
        participant_urls |-> DelIfPresent(reg.participant_urls, code),
        form_fields |-> DelIfPresent(reg.form_fields, code),
        participant_phases |-> DelIfPresent(reg.participant_phases, code),
        clients |-> CloseSession(reg, code)]

SetRegistry(reg) ==
  /\ participant_connections' = reg.participant_connections
  /\ participant_sessions' = reg.participant_sessions
  /\ participant_urls' = reg.participant_urls
  /\ form_fields' = reg.form_fields
  /\ participant_phases' = reg.participant_phases
  /\ clients' = reg.clients

\* ------------------------------------------------------- handler plumbing
\* process_message returns to handle_websocket, which stores the result in
\* its local participant_code and waits for the next message.
Return(ws, code) ==
  /\ pc' = [pc EXCEPT ![ws] = "idle"]
  /\ frame' = [frame EXCEPT ![ws] = NoFrame]
  /\ participant_code' = [participant_code EXCEPT ![ws] = code]
  /\ UNCHANGED <<bridge, games, local>>

\* An exception leaves process_message: the local keeps its value.
Raise(ws) ==
  /\ pc' = [pc EXCEPT ![ws] = "idle"]
  /\ frame' = [frame EXCEPT ![ws] = NoFrame]
  /\ UNCHANGED <<participant_code, bridge, games, local>>

\* The coroutine of ws is suspended in the await named `at`.
Suspend(ws, at, fr) ==
  /\ pc' = [pc EXCEPT ![ws] = at]
  /\ frame' = [frame EXCEPT ![ws] = fr]
  /\ UNCHANGED <<participant_code, bridge, games, local>>

\* async for message in websocket: the next message arrives.
CanReceive(ws) == pc[ws] = "idle" /\ received < MaxMessages

\* ---------------------------------------------------------------- messages
JoinMessages ==
  [type : {"join"}, participant_code : Codes \cup {"", Missing},
   participant_id : ParticipantIds \cup {None, Missing}]
TaskMessages ==
  [type : {"task"}, participant_code : Codes \cup {"", Missing},
   participant_id : ParticipantIds \cup {None, Missing}]

\* ------------------------------------------------------------------- join
\* A join check that lets every message through.
JoinIsMalformed_Never(data) == FALSE

\* if not participant_code or participant_id is None (data.get gives None
\* for a key that is not there)
JoinIsMalformed(data) ==
  \/ data.participant_code \in {"", Missing}
  \/ data.participant_id \in {None, Missing}

\* handle_join up to its first await (the GET of the initialisation URL).
handle_join(ws, data) ==
  /\ CanReceive(ws)
  /\ received' = received + 1
  /\ IF JoinIsMalformed(data)
     THEN /\ outbox' = send_error(outbox, ws,
                 "Participant code and ID are required for join message.")
          /\ Return(ws, "")
          /\ UNCHANGED <<registry, reached>>
     ELSE LET code == data.participant_code IN
          /\ participant_connections' = Put(participant_connections, code, ws)
          /\ clients' = Append(clients,
                 [code |-> code, ws |-> ws, closes |-> 0,
                  participant_id |-> data.participant_id])
          /\ participant_sessions' =
                Put(participant_sessions, code, Len(clients) + 1)
          /\ participant_phases' = Put(participant_phases, code, 0)
          /\ reached' = [reached EXCEPT ![code] = 0]
          /\ Suspend(ws, "join_get_init",
                     [NoFrame EXCEPT !.participant_code = code,
                                     !.participant_id = data.participant_id,
                                     !.url = InitUrl(code)])
          /\ UNCHANGED <<participant_urls, form_fields, outbox>>

\* The exception handler of handle_join: the error is sent, and the
\* coroutine may be suspended in that send before it removes the entries.
JoinException(ws) ==
  /\ outbox' = send_error(outbox, ws, "Error during join process")
  /\ pc' = [pc EXCEPT ![ws] = "join_send_error"]
  /\ UNCHANGED <<frame, participant_code, bridge, games, local>>

\* continue_to_next_page, GET of the initialisation URL: raise_for_status
\* raises, or the response is no redirect.
JoinInitFailed(ws) ==
  /\ pc[ws] = "join_get_init"
  /\ JoinException(ws)
  /\ UNCHANGED <<registry, received, reached>>

\* continue_to_next_page, GET of the initialisation URL: a redirect; the GET
\* of its target is issued (redirects not followed).
JoinInitRedirect(ws, loc) ==
  /\ pc[ws] = "join_get_init"
  /\ Suspend(ws, "join_get_task",
             [frame[ws] EXCEPT !.url = ResolveLocation(loc)])
  /\ UNCHANGED <<registry, outbox, received, reached>>

\* continue_to_next_page, GET of the task URL: raise_for_status raises.
JoinTaskFailed(ws) ==
  /\ pc[ws] = "join_get_task"
  /\ JoinException(ws)
  /\ UNCHANGED <<registry, received, reached>>

\* continue_to_next_page after the GET of the task URL: the cursor and the
\* field list are stored, and an action page raises the phase counter and is
\* announced.  `page` is the markup of the response.
JoinParse(ws, page) ==
  LET code == frame[ws].participant_code
      task_url == frame[ws].url
      fields == BodyFields(page)
  IN
  /\ pc[ws] = "join_get_task"
  /\ participant_urls' = Put(participant_urls, code, task_url)
  /\ form_fields' = Put(form_fields, code, fields)
  /\ IF fields # << >> /\ BodyHasData(page)
     THEN /\ reached' = [reached EXCEPT ![code] = @ + 1]
          /\ IF code \in DOMAIN participant_phases
             THEN /\ participant_phases' =
                       [participant_phases EXCEPT ![code] = @ + 1]
                  /\ outbox' = send_phase_update(outbox, code,
                                  frame[ws].participant_id,
                                  StateData(page, participant_phases[code] + 1,
                                            fields))
                  /\ Return(ws, code)
             ELSE \* KeyError on self.participant_phases[code] += 1
                  /\ UNCHANGED participant_phases
                  /\ JoinException(ws)
     ELSE /\ UNCHANGED <<participant_phases, reached, outbox>>
          /\ Return(ws, code)
  /\ UNCHANGED <<participant_connections, participant_sessions, clients,
                 received>>

\* GET of the task URL: the page at the URL is served.
JoinTaskServed(ws) ==
  /\ pc[ws] = "join_get_task"
  /\ JoinParse(ws, PathOf(frame[ws].url))

\* GET of the task URL: the answer is a redirect to loc.  The redirect is not
\* followed and its Location is not read: the empty body is parsed.
JoinTaskRedirect(ws, loc) ==
  /\ pc[ws] = "join_get_task"
  /\ JoinParse(ws, BlankPage)

\* An exception handler that removes the connection reference and leaves
\* the HTTP client registered.
JoinFailed_KeepsSession(ws) ==
  LET code == frame[ws].participant_code IN
  /\ pc[ws] = "join_send_error"
  /\ participant_connections' = DelIfPresent(participant_connections, code)
  /\ Return(ws, "")
  /\ UNCHANGED <<participant_sessions, participant_urls, form_fields,
                 participant_phases, clients, outbox, received, reached>>

\* handle_join's exception handler after the send: the connection and
\* session entries of the code are deleted (the client is not closed).
JoinFailed(ws) ==
  LET code == frame[ws].participant_code IN
  /\ pc[ws] = "join_send_error"
  /\ participant_connections' = DelIfPresent(participant_connections, code)
  /\ participant_sessions' = DelIfPresent(participant_sessions, code)
  /\ Return(ws, "")
  /\ UNCHANGED <<participant_urls, form_fields, participant_phases, clients,
                 outbox, received, reached>>

\* ------------------------------------------------------------------- task
\* data.get(f): None for a key the message does not have.
MessageGet(data, f) ==
  IF f \in DOMAIN data /\ data[f] # Missing THEN data[f] ELSE None

\* A body built with the three header keys of the message next to the
\* fields.
TaskData_WholeMessage(data, fields) ==
  [f \in {fields[i] : i \in 1..Len(fields)}
          \cup {"type", "participant_code", "participant_id"}
     |-> MessageGet(data, f)]

\* task_data = {}; for f in self.form_fields.get(participant_code, []):
\* task_data[f] = data.get(f).  A dict: a name that is twice in the field
\* list is one key.
TaskData(data, fields) ==
  [f \in {fields[i] : i \in 1..Len(fields)} |-> MessageGet(data, f)]

\* What handle_task and submit_task_to_otree do with a message before any
\* HTTP request is made.
TaskCheck(data) ==
  LET code == data.participant_code IN
  IF code = Missing \/ data.participant_id = Missing
  THEN "KeyError"          \* data["participant_code"], data["participant_id"]
  ELSE IF code = "" \/ data.participant_id = None
  THEN "missing_fields"    \* if not all([...])
  ELSE IF code \notin DOMAIN participant_sessions
  THEN "no_session"        \* KeyError on self.participant_sessions[code]
  ELSE IF code \notin DOMAIN participant_urls
  THEN "no_url"            \* if not contrib_url: return False
  ELSE "post"

\* http_session.post(contrib_url, data=task_data): the form body that is
\* sent.  requests encodes the dict as name=value pairs and leaves out every
\* name whose value is None.
PostedForm(task_data) ==
  [f \in {k \in DOMAIN task_data : task_data[k] # None} |-> task_data[f]]

\* process_message for a message that is no join: handle_task up to its
\* first await (the POST of submit_task_to_otree).
handle_task(ws, data) ==
  LET code == data.participant_code
      check == TaskCheck(data)
  IN
  /\ CanReceive(ws)
  /\ received' = received + 1
  /\ CASE check = "KeyError" ->
            \* the exception is caught by handle_websocket
            /\ outbox' = send_error(outbox, ws, "Error: KeyError")
            /\ Raise(ws)
       [] check = "missing_fields" ->
            /\ outbox' = send_error(outbox, ws, "Missing required fields for task")
            /\ Return(ws, code)
       [] check = "no_session" ->
            \* the exception is caught by handle_task
            /\ outbox' = send_error(outbox, ws, "Error submitting task: KeyError")
            /\ Return(ws, code)
       [] check = "no_url" ->
            /\ outbox' = send_error(outbox, ws, "Failed to submit task")
            /\ Return(ws, code)
       [] OTHER ->
            /\ Suspend(ws, "submit_post",
                       [NoFrame EXCEPT !.participant_code = code,
                                       !.participant_id = data.participant_id,
                                       !.url = participant_urls[code],
                                       !.task_data =
                                          TaskData(data, Get(form_fields, code, << >>))])
            /\ UNCHANGED outbox
  /\ UNCHANGED <<registry, reached>>

\* A failed submission after which navigation is started all the same.
SubmitFailed_Navigates(ws) ==
  /\ pc[ws] = "submit_post"
  /\ outbox' = send_error(outbox, ws, "Failed to submit task")
  /\ Suspend(ws, "nav_get",
             [frame[ws] EXCEPT !.task_data = << >>,
                               !.current_url = frame[ws].url, !.url = NoUrl])
  /\ UNCHANGED <<registry, received, reached>>

\* submit_task_to_otree: the POST raises or is not answered by a redirect;
\* handle_task sends the error.
SubmitFailed(ws) ==
  /\ pc[ws] = "submit_post"
  /\ outbox' = send_error(outbox, ws, "Failed to submit task")
  /\ Return(ws, frame[ws].participant_code)
  /\ UNCHANGED <<registry, received, reached>>

\* A submission after which the navigation starts from the URL the form was
\* posted to instead of the redirect target.
SubmitRedirect_StaleCursor(ws, loc) ==
  LET code == frame[ws].participant_code
      wait_url == ResolveLocation(loc)
  IN
  /\ pc[ws] = "submit_post"
  /\ participant_urls' = Put(participant_urls, code, wait_url)
  /\ IF code \in DOMAIN participant_sessions
     THEN Suspend(ws, "nav_get",
                  [frame[ws] EXCEPT !.url = NoUrl, !.task_data = << >>,
                                    !.current_url = frame[ws].url])
     ELSE Return(ws, code)
  /\ UNCHANGED <<participant_connections, participant_sessions, form_fields,
                 participant_phases, clients, outbox, received, reached>>

\* submit_task_to_otree: the POST is answered by a redirect, which becomes
\* the cursor; handle_task calls navigate_experiment, which runs to its
\* first GET.
SubmitRedirect(ws, loc) ==
  LET code == frame[ws].participant_code
      wait_url == ResolveLocation(loc)
  IN
  /\ pc[ws] = "submit_post"
  /\ participant_urls' = Put(participant_urls, code, wait_url)
  /\ IF code \in DOMAIN participant_sessions
     THEN Suspend(ws, "nav_get",
                  [frame[ws] EXCEPT !.url = NoUrl, !.task_data = << >>,
                                    !.current_url = wait_url])
     ELSE \* "HTTP session not found": logged, nothing is sent
          Return(ws, code)
  /\ UNCHANGED <<participant_connections, participant_sessions, form_fields,
                 participant_phases, clients, outbox, received, reached>>

\* ------------------------------------------------------------- navigation
\* A loop that goes on to the next attempt whatever the attempt count.
NextAttempt_Unbounded(ws, current_url) ==
  Suspend(ws, "nav_get",
          [frame[ws] EXCEPT !.attempt = @ + 1, !.url = NoUrl,
                            !.current_url = current_url])

\* navigate_experiment at the end of one loop iteration: the next GET of
\* current_url, or the end of the loop when the attempts are used up
\* ("Navigation timed out": logged, nothing is sent).
NextAttempt(ws, current_url) ==
  IF frame[ws].attempt + 1 < max_attempts
  THEN Suspend(ws, "nav_get",
               [frame[ws] EXCEPT !.attempt = @ + 1, !.url = NoUrl,
                                 !.current_url = current_url])
  ELSE Return(ws, frame[ws].participant_code)

\* GET of current_url: raise_for_status raises; navigate_experiment logs the
\* exception and returns.
NavGetFailed(ws) ==
  /\ pc[ws] = "nav_get"
  /\ Return(ws, frame[ws].participant_code)
  /\ UNCHANGED <<registry, outbox, received, reached>>

\* GET of current_url: a redirect; the GET of its target is issued (this one
\* follows redirects).
NavGetRedirect(ws, loc) ==
  /\ pc[ws] = "nav_get"
  /\ Suspend(ws, "nav_get_next", [frame[ws] EXCEPT !.url = ResolveLocation(loc)])
  /\ UNCHANGED <<registry, outbox, received, reached>>

\* A wait page that is announced to the participant as a phase.
NavGetWaitPage_Announces(ws) ==
  /\ pc[ws] = "nav_get"
  /\ IsWaitPage(PathOf(frame[ws].current_url))
  /\ outbox' = send_phase_update(outbox, frame[ws].participant_code,
                                 frame[ws].participant_id,
                                 StateData(WaitPath, 0, << >>))
  /\ Suspend(ws, "nav_sleep", frame[ws])
  /\ UNCHANGED <<registry, received, reached>>

\* GET of current_url: the response carries the oTree-Wait-Page header.
NavGetWaitPage(ws) ==
  /\ pc[ws] = "nav_get"
  /\ IsWaitPage(PathOf(frame[ws].current_url))
  /\ Suspend(ws, "nav_sleep", frame[ws])
  /\ UNCHANGED <<registry, outbox, received, reached>>

\* GET of current_url: neither a redirect nor a wait page ("Unexpected
\* response type"): break, logged, nothing is sent.
NavGetUnexpected(ws) ==
  /\ pc[ws] = "nav_get"
  /\ ~IsWaitPage(PathOf(frame[ws].current_url))
  /\ Return(ws, frame[ws].participant_code)
  /\ UNCHANGED <<registry, outbox, received, reached>>

\* asyncio.sleep(2) on a wait page is over: continue.
NavSleepDone(ws) ==
  /\ pc[ws] = "nav_sleep"
  /\ NextAttempt(ws, frame[ws].current_url)
  /\ UNCHANGED <<registry, outbox, received, reached>>

\* An action page is announced with the phase counter as it is, without the
\* increment.
NavActionPage_NoIncrement(ws, code, page, fields) ==
  /\ reached' = [reached EXCEPT ![code] = @ + 1]
  /\ IF code \in DOMAIN participant_phases
     THEN /\ UNCHANGED participant_phases
          /\ outbox' = send_phase_update(outbox, code, frame[ws].participant_id,
                          StateData(page, participant_phases[code], fields))
     ELSE UNCHANGED <<participant_phases, outbox>>
  /\ Return(ws, code)

\* An action page whose event cannot be delivered is not counted: the
\* failed send ends the run before the phase counter is raised.
NavActionPage_SendFirst(ws, code, page, fields) ==
  /\ reached' = [reached EXCEPT ![code] = @ + 1]
  /\ IF /\ code \in DOMAIN participant_phases
        /\ code \in DOMAIN participant_connections
        /\ IsOpen(participant_connections[code])
     THEN /\ participant_phases' = [participant_phases EXCEPT ![code] = @ + 1]
          /\ outbox' = send_phase_update(outbox, code, frame[ws].participant_id,
                          StateData(page, participant_phases[code] + 1, fields))
     ELSE UNCHANGED <<participant_phases, outbox>>
  /\ Return(ws, code)

\* An action page was parsed by navigate_experiment: the phase counter is
\* raised, the phase event is sent, and the run returns.
NavActionPage(ws, code, page, fields) ==
  /\ reached' = [reached EXCEPT ![code] = @ + 1]
  /\ IF code \in DOMAIN participant_phases
     THEN /\ participant_phases' = [participant_phases EXCEPT ![code] = @ + 1]
          /\ outbox' = send_phase_update(outbox, code, frame[ws].participant_id,
                          StateData(page, participant_phases[code] + 1, fields))
     ELSE \* KeyError: caught and logged by navigate_experiment
          UNCHANGED <<participant_phases, outbox>>
  /\ Return(ws, code)

\* GET of next_url raises: logged by navigate_experiment.
NavNextFailed(ws) ==
  /\ pc[ws] = "nav_get_next"
  /\ Return(ws, frame[ws].participant_code)
  /\ UNCHANGED <<registry, outbox, received, reached>>

\* A parse that appends the names of the page to the field list it finds.
NavNextPage_Merges(ws, page) ==
  LET code == frame[ws].participant_code
      next_url == frame[ws].url
      fields == FieldsOf(page)
  IN
  /\ pc[ws] = "nav_get_next"
  /\ participant_urls' = Put(participant_urls, code, next_url)
  /\ form_fields' = Put(form_fields, code,
                        Get(form_fields, code, << >>) \o fields)
  /\ IF fields # << >> /\ HasOtreeData(page)
     THEN NavActionPage(ws, code, page, fields)
     ELSE IF HasOtreeData(page)
     THEN /\ outbox' = send_results(outbox, code, page)
          /\ Suspend(ws, "nav_post_continue",
                     [frame[ws] EXCEPT !.current_url = NoUrl])
          /\ UNCHANGED <<participant_phases, reached>>
     ELSE /\ NextAttempt(ws, frame[ws].current_url)
          /\ UNCHANGED <<participant_phases, outbox, reached>>
  /\ UNCHANGED <<participant_connections, participant_sessions, clients,
                 received>>

\* The page reached from next_url is parsed.  The GET follows redirects, so
\* `page` may be the page of another path than next_url's.
NavNextPage(ws, page) ==
  LET code == frame[ws].participant_code
      next_url == frame[ws].url
      fields == FieldsOf(page)
  IN
  /\ pc[ws] = "nav_get_next"
  /\ participant_urls' = Put(participant_urls, code, next_url)
  /\ form_fields' = Put(form_fields, code, fields)
  /\ IF fields # << >> /\ HasOtreeData(page)
     THEN NavActionPage(ws, code, page, fields)
     ELSE IF HasOtreeData(page)
     THEN \* results are sent, then the empty form is posted to next_url
          /\ outbox' = send_results(outbox, code, page)
          /\ Suspend(ws, "nav_post_continue",
                     [frame[ws] EXCEPT !.current_url = NoUrl])
          /\ UNCHANGED <<participant_phases, reached>>
     ELSE \* neither branch: the loop goes on with current_url unchanged
          /\ NextAttempt(ws, frame[ws].current_url)
          /\ UNCHANGED <<participant_phases, outbox, reached>>
  /\ UNCHANGED <<participant_connections, participant_sessions, clients,
                 received>>

\* The empty-form POST raises (logged), or is not answered by a redirect
\* ("No redirect", logged): navigate_experiment returns.
NavContinueNoRedirect(ws) ==
  /\ pc[ws] = "nav_post_continue"
  /\ Return(ws, frame[ws].participant_code)
  /\ UNCHANGED <<registry, outbox, received, reached>>

\* The empty-form POST is answered by a redirect: to the end of the
\* experiment (game over), or to a page that is fetched next.
NavContinueRedirect(ws, loc) ==
  LET code == frame[ws].participant_code
      redirect_url == ResolveLocation(loc)
  IN
  /\ pc[ws] = "nav_post_continue"
  /\ IF IsOutOfRange(redirect_url)
     THEN /\ outbox' = send_game_completion(outbox, code)
          /\ Return(ws, code)
     ELSE /\ Suspend(ws, "nav_get_redirect",
                     [frame[ws] EXCEPT !.url = redirect_url])
          /\ UNCHANGED outbox
  /\ UNCHANGED <<registry, received, reached>>

\* GET of redirect_url raises: logged by navigate_experiment.
NavRedirectFailed(ws) ==
  /\ pc[ws] = "nav_get_redirect"
  /\ Return(ws, frame[ws].participant_code)
  /\ UNCHANGED <<registry, outbox, received, reached>>

\* The page reached from redirect_url is parsed (redirects followed): an
\* action page is announced, any other page makes redirect_url the
\* current_url of the next iteration.
NavRedirectPage(ws, page) ==
  LET code == frame[ws].participant_code
      redirect_url == frame[ws].url
      fields == FieldsOf(page)
  IN
  /\ pc[ws] = "nav_get_redirect"
  /\ participant_urls' = Put(participant_urls, code, redirect_url)
  /\ form_fields' = Put(form_fields, code, fields)
  /\ IF fields # << >> /\ HasOtreeData(page)
     THEN NavActionPage(ws, code, page, fields)
     ELSE /\ NextAttempt(ws, redirect_url)
          /\ UNCHANGED <<participant_phases, outbox, reached>>
  /\ UNCHANGED <<participant_connections, participant_sessions, clients,
                 received>>

\* ------------------------------------------------------- connection loop
\* handle_websocket: json.loads raises JSONDecodeError.
ReceiveInvalidJson(ws) ==
  /\ CanReceive(ws)
  /\ received' = received + 1
  /\ outbox' = send_error(outbox, ws, "Invalid JSON")
  /\ UNCHANGED <<registry, pc, frame, participant_code, reached, bridge, games, local>>

\* process_message: msg_type == "join" goes to handle_join, everything else
\* to handle_task.
process_message(ws, data) ==
  IF data.type = "join" THEN handle_join(ws, data) ELSE handle_task(ws, data)

\* handle_websocket: the peer has closed the connection, the message loop
\* ends and the finally clause runs cleanup_connection with the local
\* participant_code.
handle_websocket_finally(ws) ==
  /\ pc[ws] = "idle"
  /\ SetRegistry(cleanup_connection(Registry, participant_code[ws]))
  /\ pc' = [pc EXCEPT ![ws] = "closed"]
  /\ UNCHANGED <<frame, participant_code, outbox, received, reached, bridge, games, local>>

\* -------------------------------------------------------------- behaviour
\* The coroutine of ws is resumed from the await it is suspended in: the
\* HTTP request is answered or fails, the sleep is over, the send is done.
Resume(ws) ==
  \/ JoinInitFailed(ws)
  \/ \E loc \in Locations : JoinInitRedirect(ws, loc)
  \/ JoinTaskFailed(ws)
  \/ JoinTaskServed(ws)
  \/ \E loc \in Locations : JoinTaskRedirect(ws, loc)
  \/ JoinFailed(ws)
  \/ SubmitFailed(ws)
  \/ \E loc \in Locations : SubmitRedirect(ws, loc)
  \/ NavGetFailed(ws)
  \/ \E loc \in Locations : NavGetRedirect(ws, loc)
  \/ NavGetWaitPage(ws)
  \/ NavGetUnexpected(ws)
  \/ NavSleepDone(ws)
  \/ NavNextFailed(ws)
  \/ \E page \in Paths : NavNextPage(ws, page)
  \/ NavContinueNoRedirect(ws)
  \/ \E loc \in Locations : NavContinueRedirect(ws, loc)
  \/ NavRedirectFailed(ws)
  \/ \E page \in Paths : NavRedirectPage(ws, page)

Next ==
  \E ws \in Conns :
    \/ ReceiveInvalidJson(ws)
    \/ \E data \in JoinMessages \cup TaskMessages : process_message(ws, data)
    \/ Resume(ws)
    \/ handle_websocket_finally(ws)

Spec == Init /\ [][Next]_vars

\* ------------------------------------------- src/client/bridge_server.py
\* The bridge of src/client has the same registry without the phase
\* counters; its handle_websocket, process_message, send_error,
\* initialize_participant, the two GETs of continue_to_next_page and the
\* exception handler of handle_join are, line by line, those of the bridge
\* above, so ReceiveInvalidJson, JoinInitFailed, JoinInitRedirect,
\* JoinTaskFailed, JoinFailed and TaskCheck stand for them here as well.
Client_Init == Start /\ bridge = "client"

RoundStartedEvent(code, page) ==
  [type |-> "event", eventType |-> "round-started",
   participant_code |-> code, session |-> SessionOf(code), page |-> page]
send_game_state(ob, code, page) ==
  SendToParticipant(ob, code, RoundStartedEvent(code, page))

\* handle_join up to its first await.
Client_handle_join(ws, data) ==
  /\ CanReceive(ws)
  /\ received' = received + 1
  /\ IF JoinIsMalformed(data)
     THEN /\ outbox' = send_error(outbox, ws,
                 "Participant code and ID are required for join message.")
          /\ Return(ws, "")
          /\ UNCHANGED registry
     ELSE LET code == data.participant_code IN
          /\ participant_connections' = Put(participant_connections, code, ws)
          /\ clients' = Append(clients,
                 [code |-> code, ws |-> ws, closes |-> 0,
                  participant_id |-> data.participant_id])
          /\ participant_sessions' =
                Put(participant_sessions, code, Len(clients) + 1)
          /\ Suspend(ws, "join_get_init",
                     [NoFrame EXCEPT !.participant_code = code,
                                     !.participant_id = data.participant_id,
                                     !.url = InitUrl(code)])
          /\ UNCHANGED <<participant_urls, form_fields, participant_phases,
                         outbox>>
  /\ UNCHANGED reached

\* continue_to_next_page after the GET of the task URL: the cursor and the
\* field list are stored; a page with a state payload is sent as the game
\* state.
Client_JoinParse(ws, page) ==
  LET code == frame[ws].participant_code
      task_url == frame[ws].url
  IN
  /\ pc[ws] = "join_get_task"
  /\ participant_urls' = Put(participant_urls, code, task_url)
  /\ form_fields' = Put(form_fields, code, BodyFields(page))
  /\ outbox' = IF BodyHasData(page)
               THEN send_game_state(outbox, code, page)
               ELSE outbox
  /\ Return(ws, code)
  /\ UNCHANGED <<participant_connections, participant_sessions,
                 participant_phases, clients, received, reached>>

Client_JoinTaskServed(ws) ==
  /\ pc[ws] = "join_get_task"
  /\ Client_JoinParse(ws, PathOf(frame[ws].url))

\* The redirect is not followed: the empty body is parsed.
Client_JoinTaskRedirect(ws, loc) ==
  /\ pc[ws] = "join_get_task"
  /\ Client_JoinParse(ws, BlankPage)

\* handle_task up to its first await (the POST of submit_task_to_otree).
Client_handle_task(ws, data) ==
  LET code == data.participant_code
      check == TaskCheck(data)
  IN
  /\ CanReceive(ws)
  /\ received' = received + 1
  /\ CASE check = "KeyError" ->
            /\ outbox' = send_error(outbox, ws, "Error: KeyError")
            /\ Raise(ws)
       [] check = "missing_fields" ->
            /\ outbox' = send_error(outbox, ws, "Missing required fields for task")
            /\ Return(ws, code)
       [] check = "no_session" ->
            /\ outbox' = send_error(outbox, ws,
                                    "Error submitting contribution: KeyError")
            /\ Return(ws, code)
       [] check = "no_url" ->
            /\ outbox' = send_error(outbox, ws, "Failed to submit contribution")
            /\ Return(ws, code)
       [] OTHER ->
            /\ Suspend(ws, "submit_post",
                       [NoFrame EXCEPT !.participant_code = code,
                                       !.participant_id = data.participant_id,
                                       !.url = participant_urls[code],
                                       !.task_data =
                                          TaskData(data, Get(form_fields, code, << >>))])
            /\ UNCHANGED outbox
  /\ UNCHANGED <<registry, reached>>

Client_process_message(ws, data) ==
  IF data.type = "join"
  THEN Client_handle_join(ws, data)
  ELSE Client_handle_task(ws, data)

\* The POST raises or is not answered by a redirect.
Client_SubmitFailed(ws) ==
  /\ pc[ws] = "submit_post"
  /\ outbox' = send_error(outbox, ws, "Failed to submit contribution")
  /\ Return(ws, frame[ws].participant_code)
  /\ UNCHANGED <<registry, received, reached>>

\* The POST is answered by a redirect, which becomes the cursor;
\* wait_for_results_and_notify runs to its first GET of wait_url.
Client_SubmitRedirect(ws, loc) ==
  LET code == frame[ws].participant_code
      wait_url == ResolveLocation(loc)
  IN
  /\ pc[ws] = "submit_post"
  /\ participant_urls' = Put(participant_urls, code, wait_url)
  /\ IF code \in DOMAIN participant_sessions
     THEN Suspend(ws, "wait_get",
                  [frame[ws] EXCEPT !.url = NoUrl, !.task_data = << >>,
                                    !.current_url = wait_url])
     ELSE Return(ws, code)
  /\ UNCHANGED <<participant_connections, participant_sessions, form_fields,
                 participant_phases, clients, outbox, received, reached>>

\* wait_for_results_and_notify: GET of wait_url raises; logged.
Client_WaitGetFailed(ws) ==
  /\ pc[ws] = "wait_get"
  /\ Return(ws, frame[ws].participant_code)
  /\ UNCHANGED <<registry, outbox, received, reached>>

\* GET of wait_url: a redirect; the GET of results_url is issued (this one
\* follows redirects).
Client_WaitGetRedirect(ws, loc) ==
  /\ pc[ws] = "wait_get"
  /\ Suspend(ws, "wait_get_results",
             [frame[ws] EXCEPT !.url = ResolveLocation(loc)])
  /\ UNCHANGED <<registry, outbox, received, reached>>

\* GET of wait_url: the response carries the oTree-Wait-Page header.
Client_WaitGetWaitPage(ws) ==
  /\ pc[ws] = "wait_get"
  /\ IsWaitPage(PathOf(frame[ws].current_url))
  /\ Suspend(ws, "wait_sleep", frame[ws])
  /\ UNCHANGED <<registry, outbox, received, reached>>

\* GET of wait_url: neither ("Unexpected response from wait page"): break.
Client_WaitGetUnexpected(ws) ==
  /\ pc[ws] = "wait_get"
  /\ ~IsWaitPage(PathOf(frame[ws].current_url))
  /\ Return(ws, frame[ws].participant_code)
  /\ UNCHANGED <<registry, outbox, received, reached>>

\* asyncio.sleep(2) is over: the next attempt requests wait_url again, or
\* the attempts are used up ("Wait page polling timed out": logged).
Client_WaitSleepDone(ws) ==
  /\ pc[ws] = "wait_sleep"
  /\ IF frame[ws].attempt + 1 < Client_max_attempts
     THEN Suspend(ws, "wait_get", [frame[ws] EXCEPT !.attempt = @ + 1])
     ELSE Return(ws, frame[ws].participant_code)
  /\ UNCHANGED <<registry, outbox, received, reached>>

\* GET of results_url raises: logged.
Client_ResultsFailed(ws) ==
  /\ pc[ws] = "wait_get_results"
  /\ Return(ws, frame[ws].participant_code)
  /\ UNCHANGED <<registry, outbox, received, reached>>

\* The page reached from results_url: with a state payload it is sent as
\* game state and the empty form is posted to results_url; without one,
\* state_data is unbound and the UnboundLocalError is logged.
Client_ResultsPage(ws, page) ==
  LET code == frame[ws].participant_code IN
  /\ pc[ws] = "wait_get_results"
  /\ IF HasOtreeData(page)
     THEN /\ outbox' = send_game_state(outbox, code, page)
          /\ Suspend(ws, "wait_post_results", frame[ws])
     ELSE /\ UNCHANGED outbox
          /\ Return(ws, code)
  /\ UNCHANGED <<registry, received, reached>>

\* The empty-form POST is answered by a redirect: game completion is sent.
Client_ResultsPostRedirect(ws) ==
  /\ pc[ws] = "wait_post_results"
  /\ outbox' = send_game_completion(outbox, frame[ws].participant_code)
  /\ Return(ws, frame[ws].participant_code)
  /\ UNCHANGED <<registry, received, reached>>

\* The empty-form POST raises or is not answered by a redirect.
Client_ResultsPostOther(ws) ==
  /\ pc[ws] = "wait_post_results"
  /\ Return(ws, frame[ws].participant_code)
  /\ UNCHANGED <<registry, outbox, received, reached>>

\* cleanup_connection of src/client: connection, session and cursor.
Client_cleanup_connection(reg, code) ==
  IF code \in {None, ""}
  THEN reg
  ELSE [reg EXCEPT
          !.participant_connections = DelIfPresent(@, code),
          !.participant_sessions = DelIfPresent(@, code),
          !.participant_urls = DelIfPresent(@, code),
          !.clients = CloseSession(reg, code)]

Client_handle_websocket_finally(ws) ==
  /\ pc[ws] = "idle"
  /\ SetRegistry(Client_cleanup_connection(Registry, participant_code[ws]))
  /\ pc' = [pc EXCEPT ![ws] = "closed"]
  /\ UNCHANGED <<frame, participant_code, outbox, received, reached, bridge, games, local>>

Client_Resume(ws) ==
  \/ JoinInitFailed(ws)
  \/ \E loc \in Locations : JoinInitRedirect(ws, loc)
  \/ JoinTaskFailed(ws)
  \/ Client_JoinTaskServed(ws)
  \/ \E loc \in Locations : Client_JoinTaskRedirect(ws, loc)
  \/ JoinFailed(ws)
  \/ Client_SubmitFailed(ws)
  \/ \E loc \in Locations : Client_SubmitRedirect(ws, loc)
  \/ Client_WaitGetFailed(ws)
  \/ \E loc \in Locations : Client_WaitGetRedirect(ws, loc)
  \/ Client_WaitGetWaitPage(ws)
  \/ Client_WaitGetUnexpected(ws)
  \/ Client_WaitSleepDone(ws)
  \/ Client_ResultsFailed(ws)
  \/ \E page \in Paths : Client_ResultsPage(ws, page)
  \/ Client_ResultsPostRedirect(ws)
  \/ Client_ResultsPostOther(ws)

Client_Next ==
  \E ws \in Conns :
    \/ ReceiveInvalidJson(ws)
    \/ \E data \in JoinMessages \cup TaskMessages :
         Client_process_message(ws, data)
    \/ Client_Resume(ws)
    \/ Client_handle_websocket_finally(ws)

Client_Spec == Client_Init /\ [][Client_Next]_vars

\* --------------------------------------------------------- both bridges
\* Either bridge server is started.
Both_Init == Start /\ bridge \in {"otree", "client"}
Both_Next == IF bridge = "otree" THEN Next ELSE Client_Next

\* Either bridge with one connection that joins, submits and navigates, and
\* a second connection whose messages are answered without an HTTP request.
\* Every request is made with a timeout and every sleep ends, so a suspended
\* coroutine is resumed.
OneNavigator == Both_Next /\ pc'["ws2"] \in {"idle", "closed"}
FairSpec ==
  /\ Both_Init
  /\ [][OneNavigator]_vars
  /\ WF_vars(bridge = "otree" /\ Resume("ws1"))
  /\ WF_vars(bridge = "client" /\ Client_Resume("ws1"))

\* Either bridge with a connection that joins participants (and may be
\* closed) and a connection that submits their tasks.
JoinerAndSubmitter ==
  /\ Both_Next
  /\ pc'["ws1"] # "join_get_init"
  /\ pc'["ws2"] # "submit_post"
HandoverSpec == Both_Init /\ [][JoinerAndSubmitter]_vars

\* ------------------------------------------- one connection, wider inputs
\* The bridge of src/otree with a single connection, and with more of what a
\* peer and the experiment application can send: two participant ids, task
\* messages with and without the value of a field, Location values on
\* another host and relative ones that begin with "http", and the survey
\* page.
Solo_Messages ==
  [type : {"join", "task"}, participant_code : {"A"},
   participant_id : {"7", "8"}, contribution : {"5", Missing}, choice : {"x"}]
Solo_Paths == Paths \cup {SurveyPath}
Solo_Locations ==
  {<<p>> : p \in Solo_Paths} \cup
  {<<h, p>> : h \in HttpSegments, p \in {SurveyPath}}

Solo_Resume(ws) ==
  \/ JoinInitFailed(ws)
  \/ \E loc \in Solo_Locations : JoinInitRedirect(ws, loc)
  \/ JoinTaskFailed(ws)
  \/ JoinTaskServed(ws)
  \/ \E loc \in Solo_Locations : JoinTaskRedirect(ws, loc)
  \/ JoinFailed(ws)
  \/ SubmitFailed(ws)
  \/ \E loc \in Solo_Locations : SubmitRedirect(ws, loc)
  \/ NavGetFailed(ws)
  \/ \E loc \in Solo_Locations : NavGetRedirect(ws, loc)
  \/ NavGetWaitPage(ws)
  \/ NavGetUnexpected(ws)
  \/ NavSleepDone(ws)
  \/ NavNextFailed(ws)
  \/ \E page \in Solo_Paths : NavNextPage(ws, page)
  \/ NavContinueNoRedirect(ws)
  \/ \E loc \in Solo_Locations : NavContinueRedirect(ws, loc)
  \/ NavRedirectFailed(ws)
  \/ \E page \in Solo_Paths : NavRedirectPage(ws, page)

Solo_Next ==
  \/ ReceiveInvalidJson("ws1")
  \/ \E data \in Solo_Messages : process_message("ws1", data)
  \/ Solo_Resume("ws1")
  \/ handle_websocket_finally("ws1")

Solo_Spec == Init /\ [][Solo_Next]_vars

\* ------------------------------------------------- local_server_examples
\* The two game servers of src/local_server_examples (dictator and public
\* goods).  A server keeps its games in self.games, and every connection has
\* its own handle_websocket coroutine with the locals game and player_role
\* (player_id).  A handler runs a message to its end before another handler
\* runs: its only awaits are websocket sends, which buffer the message.  A
\* send on a connection that has been closed raises ConnectionClosed.

\* Inbound messages the model lets the connections of a game server receive,
\* and how many of them it lets be answered with an error.
Game_MaxMessages == 7
Game_MaxErrors == 1

\* The game that has a spec file games/game_<id>.json, and the recovery
\* codes that file lists.
TheGame == "g1"
recovery_codes == <<"A", "B">>

WAITING == "waiting"
DECISION_PHASE == "decision"
CONTRIBUTION_PHASE == "contribution"
PAYOUT_PHASE == "payout"
FINISHED == "finished"

\* Python floats: a number or nan.  Every comparison with nan is false and
\* every sum, difference and product with nan is nan.
Num(n) == [nan |-> FALSE, v |-> n]
NaN == [nan |-> TRUE, v |-> 0]
Less(a, b) == ~a.nan /\ ~b.nan /\ a.v < b.v
Plus(a, b) == IF a.nan \/ b.nan THEN NaN ELSE Num(a.v + b.v)
Minus(a, b) == IF a.nan \/ b.nan THEN NaN ELSE Num(a.v - b.v)
Times(a, b) == IF a.nan \/ b.nan THEN NaN ELSE Num(a.v * b.v)

\* The values a peer puts under money_send or contribution, as they are
\* after json.loads: numbers, the literal NaN (or the string "nan"), and a
\* string that is not a number.
RawAmounts == {"-1", "4", "10", "21", "nan", "abc"}
\* float(x) raises ValueError
FloatRaises(x) == x = "abc"
\* float(x)
float(x) ==
  CASE x = "-1" -> Num(0 - 1)
    [] x = "4" -> Num(4)
    [] x = "10" -> Num(10)
    [] x = "21" -> Num(21)
    [] x = "nan" -> NaN

\* game.players is a dict in insertion order: the sequence of its items.
\* An item also records by which connection the role was joined.
Keys(players) == {players[i].role : i \in DOMAIN players}
\* game.players[role] = websocket for a key the dict has
SetConnection(players, role, websocket) ==
  [i \in DOMAIN players |->
     IF players[i].role = role THEN [players[i] EXCEPT !.ws = websocket]
     ELSE players[i]]

\* for role, websocket in game.players.items(): if websocket: await
\* send(websocket, ...)  --  the sends of the loop, in order.
Recipients(players) == SelectSeq(players, LAMBDA p : p.ws # None)
ToEach(players, Msg(_)) ==
  LET to == Recipients(players)
  IN [i \in DOMAIN to |-> [to |-> to[i].ws, msg |-> Msg(to[i].role)]]

ErrorMessage(error_message) == [type |-> "error", message |-> error_message]
\* The sends of one handler run, in order: each reaches its connection until
\* one raises ConnectionClosed; the rest of the run is skipped and the
\* except clause of the message loop sends an error to the sender.
SendAll(ob, sender, sends) ==
  LET k == CHOOSE n \in 1..(Len(sends) + 1) :
             /\ \A j \in 1..(n - 1) : IsOpen(sends[j].to)
             /\ n <= Len(sends) => ~IsOpen(sends[n].to)
      done == SubSeq(sends, 1, k - 1) \o
              (IF k <= Len(sends)
               THEN <<[to |-> sender, msg |-> ErrorMessage("Error: closed")]>>
               ELSE << >>)
      For(ws) == SelectSeq(done, LAMBDA s : s.to = ws)
  IN [ws \in Conns |-> ob[ws] \o [i \in DOMAIN For(ws) |-> For(ws)[i].msg]]

\* A handler has run one message to its end: the games, its locals and the
\* messages it has sent.
Handled(ws, out) ==
  /\ pc[ws] = "idle"
  /\ received < Game_MaxMessages
  /\ received' = received + 1
  /\ games' = out.games
  /\ local' = [local EXCEPT ![ws] = out.local]
  /\ outbox' = SendAll(outbox, ws, out.sends)
  /\ Cardinality({x \in UNION {{<<c, i>> : i \in DOMAIN outbox'[c]} :
                                 c \in Conns} :
                    outbox'[x[1]][x[2]].type = "error"}) <= Game_MaxErrors
  /\ UNCHANGED <<registry, pc, frame, participant_code, reached, bridge>>

\* await self.send_error(websocket, ...); continue
Refused(ws, error_message) ==
  [games |-> games, local |-> local[ws],
   sends |-> <<[to |-> ws, msg |-> ErrorMessage(error_message)]>>]

\* Events.  The field role of a result event is not on the wire of the
\* dictator server: it records for which role the event was sent.
Event(eventType, role) ==
  [type |-> "event", eventType |-> eventType, role |-> role]
PhaseStarted(role, phase) ==
  [type |-> "event", eventType |-> "phase-started", role |-> role,
   phase |-> phase]
\* decision-result, contribution-result, game-over
Result(eventType, role, payoff) ==
  [type |-> "event", eventType |-> eventType, role |-> role,
   payoff |-> payoff]
\* send_game_started to every connected player: game-started, then
\* phase-started
StartedTo(players, phase) ==
  LET to == Recipients(players)
  IN [i \in 1..(2 * Len(to)) |->
        [to |-> to[(i + 1) \div 2].ws,
         msg |-> IF i % 2 = 1
                 THEN Event("game-started", to[(i + 1) \div 2].role)
                 ELSE PhaseStarted(to[(i + 1) \div 2].role, phase)]]

\* game_specs["recovery_codes"]
IsRecoveryCode(recovery) ==
  \E i \in DOMAIN recovery_codes : recovery_codes[i] = recovery
\* recovery_index = game_specs["recovery_codes"].index(recovery)
recovery_index(recovery) ==
  (CHOOSE i \in DOMAIN recovery_codes : recovery_codes[i] = recovery) - 1

\* start_game: the state of the first phase
start_game(game, first_phase) ==
  [game EXCEPT !.state = first_phase, !.current_phase = 1]
\* process_decision_completion, process_contribution_completion: the state
BeginPayout(game) ==
  [game EXCEPT !.state = PAYOUT_PHASE, !.current_phase = 2,
               !.players_done = [role \in DOMAIN @ |-> FALSE]]
\* mark_player_done
mark_player_done(game, role) ==
  [game EXCEPT !.players_done = Put(@, role, TRUE)]
\* done_in_payout records the done actions handled while the game was in the
\* payout phase: for which role, and received on which connection.
NoteDone(game, role, ws) ==
  [game EXCEPT !.done_in_payout =
                 IF game.state = PAYOUT_PHASE THEN @ \cup {<<role, ws>>}
                 ELSE @]
all_players_done(game) ==
  \A role \in DOMAIN game.players_done : game.players_done[role]
\* end_game: the state
end_game(game) == [game EXCEPT !.state = FINISHED]

\* ---------------------------- src/local_server_examples/dictator/server
money_available == 10
exchange_rate == 3

DictatorGame ==
  [players |-> << >>, state |-> WAITING, current_phase |-> 0,
   money_sent |-> Num(0), dictator_decision_made |-> FALSE,
   players_done |-> EmptyDict, done_in_payout |-> {}]

\* add_player
Dictator_add_player(game, role, websocket) ==
  [game EXCEPT !.players = Append(@, [role |-> role, ws |-> websocket,
                                      by |-> websocket]),
               !.players_done = Put(@, role, FALSE)]
\* record_decision raises ValueError
Dictator_DecisionRejected(money_send) ==
  Less(money_send, Num(0)) \/ Less(Num(money_available), money_send)
\* record_decision
Dictator_record_decision(game, money_send) ==
  [game EXCEPT !.money_sent = money_send, !.dictator_decision_made = TRUE]
\* calculate_payouts
Dictator_calculate_payouts(game) ==
  [role \in {"dictator", "receiver"} |->
     IF role = "dictator" THEN Minus(Num(money_available), game.money_sent)
     ELSE Times(game.money_sent, Num(exchange_rate))]
\* process_decision_completion: phase-started to every connected player,
\* then decision-result to every connected player
Dictator_CompletionSends(game) ==
  ToEach(game.players, LAMBDA role : PhaseStarted(role, 2)) \o
  ToEach(game.players,
         LAMBDA role : Result("decision-result", role,
                              Dictator_calculate_payouts(game)[role]))

\* msg_type == "join"
Dictator_join(ws, data) ==
  IF data.gameId = Missing /\ data.recovery = Missing
  THEN Refused(ws, "Game ID and recovery code are required")
  ELSE IF data.gameId # TheGame
  THEN Refused(ws, "Game does not exist")
  ELSE IF ~IsRecoveryCode(data.recovery)
  THEN Refused(ws, "Invalid recovery code")
  ELSE
    LET game == Get(games, TheGame, DictatorGame)
        known == Put(games, TheGame, game)
        player_role == IF recovery_index(data.recovery) = 0 THEN "dictator"
                       ELSE "receiver"
    IN IF Len(game.players) >= 2
       THEN [games |-> known,
             local |-> [local[ws] EXCEPT !.game = TheGame],
             sends |-> <<[to |-> ws, msg |-> ErrorMessage("Game is full")]>>]
       ELSE IF player_role \in Keys(game.players)
       THEN [games |-> known,
             local |-> [game |-> TheGame, player |-> player_role],
             sends |-> <<[to |-> ws,
                          msg |-> ErrorMessage("Role already taken")]>>]
       ELSE
         LET added == Dictator_add_player(game, player_role, ws)
             ready == /\ "dictator" \in Keys(added.players)
                      /\ "receiver" \in Keys(added.players)
         IN [games |-> Put(games, TheGame,
                           IF ready THEN start_game(added, DECISION_PHASE)
                           ELSE added),
             local |-> [game |-> TheGame, player |-> player_role],
             sends |-> <<[to |-> ws,
                          msg |-> Event("assign-role", player_role)]>> \o
                       (IF ready THEN StartedTo(added.players, 1)
                        ELSE << >>)]

\* msg_type == "decision"
Dictator_decision(ws, data) ==
  IF local[ws].game = None \/ local[ws].player = None
  THEN Refused(ws, "Game not found")
  ELSE IF games[local[ws].game].state # DECISION_PHASE
  THEN Refused(ws, "Game not in decision phase")
  ELSE IF local[ws].player # "dictator"
  THEN Refused(ws, "Only dictator can make decisions")
  ELSE IF data.money_send = None
  THEN Refused(ws, "money_send is required")
  ELSE IF FloatRaises(data.money_send)
  THEN Refused(ws, "could not convert string to float")
  ELSE IF Dictator_DecisionRejected(float(data.money_send))
  THEN Refused(ws, "Cannot send this amount")
  ELSE
    LET game == BeginPayout(Dictator_record_decision(
                              games[local[ws].game], float(data.money_send)))
    IN [games |-> Put(games, local[ws].game, game), local |-> local[ws],
        sends |-> Dictator_CompletionSends(game)]

\* ------------------------ src/local_server_examples/public_goods/server
\* The game's spec file: one recovery code for each of the num_players
\* players, initial_endowment 20 and public_good_efficiency 0.5.
num_players == Len(recovery_codes)
initial_endowment == 20
\* self.public_good_efficiency * total: the contributions of the model are
\* even numbers, so half of their sum is a whole number.
Share(total) == IF total.nan THEN NaN ELSE Num(total.v \div 2)

PublicGoodsGame ==
  [players |-> << >>, state |-> WAITING, current_phase |-> 0,
   contributions |-> EmptyDict, contributions_made |-> EmptyDict,
   players_done |-> EmptyDict, done_in_payout |-> {}]

\* add_player
PG_add_player(game, player_id, websocket) ==
  [game EXCEPT !.players = Append(@, [role |-> player_id, ws |-> websocket,
                                      by |-> websocket]),
               !.players_done = Put(@, player_id, FALSE),
               !.contributions_made = Put(@, player_id, FALSE)]
\* record_contribution raises ValueError
PG_ContributionRejected(contribution) ==
  Less(contribution, Num(0)) \/ Less(Num(initial_endowment), contribution)
\* record_contribution
PG_record_contribution(game, player_id, contribution) ==
  [game EXCEPT !.contributions = Put(@, player_id, contribution),
               !.contributions_made = Put(@, player_id, TRUE)]
\* sum(self.contributions.values())
RECURSIVE SumOver(_, _)
SumOver(d, keys) ==
  IF keys = {} THEN Num(0)
  ELSE LET k == CHOOSE x \in keys : TRUE
       IN Plus(d[k], SumOver(d, keys \ {k}))
\* calculate_payoffs
PG_calculate_payoffs(game) ==
  [player_id \in Keys(game.players) |->
     Plus(Minus(Num(initial_endowment),
                Get(game.contributions, player_id, Num(0))),
          Share(SumOver(game.contributions, DOMAIN game.contributions)))]
all_contributions_made(game) ==
  \A player_id \in DOMAIN game.contributions_made :
    game.contributions_made[player_id]
\* A completion that announces the phase before the results, as the
\* dictator server does.
PG_CompletionSends_PhaseFirst(game) ==
  ToEach(game.players, LAMBDA player_id : PhaseStarted(player_id, 2)) \o
  ToEach(game.players,
         LAMBDA player_id : Result("contribution-result", player_id,
                                   PG_calculate_payoffs(game)[player_id]))

\* process_contribution_completion: contribution-result to every connected
\* player, then phase-started to every connected player
PG_CompletionSends(game) ==
  ToEach(game.players,
         LAMBDA player_id : Result("contribution-result", player_id,
                                   PG_calculate_payoffs(game)[player_id])) \o
  ToEach(game.players, LAMBDA player_id : PhaseStarted(player_id, 2))

\* player_id = f"player_{recovery_index + 1}"
PlayerIds == <<"player_1", "player_2">>

\* msg_type == "join"
PG_join(ws, data) ==
  IF data.gameId = Missing /\ data.recovery = Missing
  THEN Refused(ws, "Game ID and recovery code are required")
  ELSE IF data.gameId # TheGame
  THEN Refused(ws, "Game does not exist")
  ELSE IF ~IsRecoveryCode(data.recovery)
  THEN Refused(ws, "Invalid recovery code")
  ELSE
    LET game == Get(games, TheGame, PublicGoodsGame)
        known == Put(games, TheGame, game)
        player_id == PlayerIds[recovery_index(data.recovery) + 1]
    IN IF Len(game.players) >= num_players
       THEN [games |-> known,
             local |-> [local[ws] EXCEPT !.game = TheGame],
             sends |-> <<[to |-> ws, msg |-> ErrorMessage("Game is full")]>>]
       ELSE IF player_id \in Keys(game.players)
       THEN [games |-> known,
             local |-> [game |-> TheGame, player |-> player_id],
             sends |-> <<[to |-> ws,
                          msg |-> ErrorMessage("Player already joined")]>>]
       ELSE
         LET added == PG_add_player(game, player_id, ws)
             ready == Len(added.players) = num_players
         IN [games |-> Put(games, TheGame,
                           IF ready
                           THEN start_game(added, CONTRIBUTION_PHASE)
                           ELSE added),
             local |-> [game |-> TheGame, player |-> player_id],
             sends |-> <<[to |-> ws,
                          msg |-> Event("assign-role", player_id)]>> \o
                       (IF ready THEN StartedTo(added.players, 1)
                        ELSE << >>)]

\* msg_type == "contribution"
PG_contribution(ws, data) ==
  IF local[ws].game = None \/ local[ws].player = None
  THEN Refused(ws, "Game not found")
  ELSE IF games[local[ws].game].state # CONTRIBUTION_PHASE
  THEN Refused(ws, "Game not in contribution phase")
  ELSE IF data.contribution = None
  THEN Refused(ws, "contribution is required")
  ELSE IF FloatRaises(data.contribution)
  THEN Refused(ws, "could not convert string to float")
  ELSE IF PG_ContributionRejected(float(data.contribution))
  THEN Refused(ws, "Cannot contribute this amount")
  ELSE
    LET recorded == PG_record_contribution(games[local[ws].game],
                                           local[ws].player,
                                           float(data.contribution))
        complete == all_contributions_made(recorded)
        game == IF complete THEN BeginPayout(recorded) ELSE recorded
    IN [games |-> Put(games, local[ws].game, game), local |-> local[ws],
        sends |-> IF complete THEN PG_CompletionSends(game) ELSE << >>]

\* ---------------------------------------------------- both game servers
\* Payoffs computed from a game without its recorded decisions.
Payoffs_Initial(game) ==
  IF bridge = "dictator"
  THEN Dictator_calculate_payouts([game EXCEPT !.money_sent = Num(0)])
  ELSE PG_calculate_payoffs([game EXCEPT !.contributions = EmptyDict])

\* calculate_payouts of the dictator game, calculate_payoffs of the public
\* goods game
Payoffs(game) ==
  IF bridge = "dictator" THEN Dictator_calculate_payouts(game)
  ELSE PG_calculate_payoffs(game)

\* An action handler that ends the game whenever every player is done.
Game_action_AnyPhase(ws, data) ==
  IF local[ws].game = None \/ local[ws].player = None
  THEN Refused(ws, "Game not found")
  ELSE IF data.action # "done"
  THEN Refused(ws, "Unknown action")
  ELSE
    LET marked == NoteDone(mark_player_done(games[local[ws].game],
                                            local[ws].player),
                           local[ws].player, ws)
        over == all_players_done(marked)
    IN [games |-> Put(games, local[ws].game,
                      IF over THEN end_game(marked) ELSE marked),
        local |-> local[ws],
        sends |-> IF over
                  THEN ToEach(marked.players,
                              LAMBDA role : Result("game-over", role,
                                                   Payoffs(marked)[role]))
                  ELSE << >>]

\* msg_type == "action" (the same code in both servers); end_game sends
\* game-over to every connected player
Game_action(ws, data) ==
  IF local[ws].game = None \/ local[ws].player = None
  THEN Refused(ws, "Game not found")
  ELSE IF data.action # "done"
  THEN Refused(ws, "Unknown action")
  ELSE
    LET marked == NoteDone(mark_player_done(games[local[ws].game],
                                            local[ws].player),
                           local[ws].player, ws)
        over == marked.state = PAYOUT_PHASE /\ all_players_done(marked)
    IN [games |-> Put(games, local[ws].game,
                      IF over THEN end_game(marked) ELSE marked),
        local |-> local[ws],
        sends |-> IF over
                  THEN ToEach(marked.players,
                              LAMBDA role : Result("game-over", role,
                                                   Payoffs(marked)[role]))
                  ELSE << >>]

\* The messages of the peers: joins, decisions (one amount the dictator game
\* accepts), contributions, actions.
Game_Messages ==
  [type : {"join"}, gameId : {TheGame, Missing},
   recovery : {"A", "B", Missing}] \cup
  [type : {"decision"}, money_send : (RawAmounts \ {"4"}) \cup {None}] \cup
  [type : {"contribution"}, contribution : RawAmounts \cup {None}] \cup
  [type : {"action"}, action : {"done", "undo"}]

\* The message loop of handle_websocket for one message.
Dictator_handle(ws, data) ==
  IF data.type = "join" THEN Dictator_join(ws, data)
  ELSE IF data.type = "decision" THEN Dictator_decision(ws, data)
  ELSE IF data.type = "action" THEN Game_action(ws, data)
  ELSE Refused(ws, "Unknown message type")
PG_handle(ws, data) ==
  IF data.type = "join" THEN PG_join(ws, data)
  ELSE IF data.type = "contribution" THEN PG_contribution(ws, data)
  ELSE IF data.type = "action" THEN Game_action(ws, data)
  ELSE Refused(ws, "Unknown message type")

\* json.loads raises JSONDecodeError
Game_ReceiveInvalidJson(ws) == Handled(ws, Refused(ws, "Invalid JSON message"))

\* The peer has closed the connection: the message loop ends and the finally
\* clause sets game.players[player_role] = None.
Game_finally(ws) ==
  /\ pc[ws] = "idle"
  /\ pc' = [pc EXCEPT ![ws] = "closed"]
  /\ games' =
       IF local[ws].game # None /\ local[ws].player # None
       THEN LET game == games[local[ws].game]
            IN IF local[ws].player \in Keys(game.players)
               THEN Put(games, local[ws].game,
                        [game EXCEPT !.players =
                           SetConnection(@, local[ws].player, None)])
               ELSE games
       ELSE games
  /\ UNCHANGED <<registry, frame, participant_code, outbox, received,
                 reached, bridge, local>>

\* Either game server serves its connections.
Games_Next ==
  \E ws \in Conns :
    \/ Game_ReceiveInvalidJson(ws)
    \/ /\ bridge = "dictator"
       /\ \E data \in Game_Messages : Handled(ws, Dictator_handle(ws, data))
    \/ /\ bridge = "public_goods"
       /\ \E data \in Game_Messages : Handled(ws, PG_handle(ws, data))
    \/ Game_finally(ws)
Games_Init == Start /\ bridge \in {"dictator", "public_goods"}
Games_Spec == Games_Init /\ [][Games_Next]_vars

\* ------------------------------------------------------- reading the wire
IsPhaseEvent(m) == m.type = "event" /\ m.eventType = "phase-transition"
IsGameOver(m) == m.type = "event" /\ m.eventType = "game-over"
IsError(m) == m.type = "error"
\* The messages a step has put on the connection ws.
Sent(ws) == SubSeq(outbox'[ws], Len(outbox[ws]) + 1, Len(outbox'[ws]))
SeqRange(q) == {q[i] : i \in DOMAIN q}
\* The awaits of a join, a submission or a navigation: HTTP requests and the
\* sleep of the wait-page poll.
InFlight == {"join_get_init", "join_get_task", "submit_post", "nav_get",
             "nav_get_next", "nav_sleep", "nav_post_continue",
             "nav_get_redirect"}

\* ----------------------------------------------------------------- claims

\* C1: every phase-transition event carries as phase the number of action
\* pages the bridge has parsed for that participant since its join, and the
\* phase events of one session of a participant carry strictly increasing
\* phase values in the order in which they were sent.
C1_PhaseAtEmission ==
  \A ws \in Conns : \A m \in SeqRange(Sent(ws)) :
    IsPhaseEvent(m) => m.phase = reached'[m.participant_code]
C1_PhasesIncrease ==
  \A ws \in Conns : \A i, j \in DOMAIN outbox[ws] :
    ( /\ i < j
      /\ IsPhaseEvent(outbox[ws][i]) /\ IsPhaseEvent(outbox[ws][j])
      /\ outbox[ws][i].participant_code = outbox[ws][j].participant_code
      /\ outbox[ws][i].session = outbox[ws][j].session )
    => outbox[ws][i].phase < outbox[ws][j].phase
C2_OneOperationPerCode ==
  \A w1, w2 \in Conns :
    (w1 # w2 /\ pc[w1] \in InFlight /\ pc[w2] \in InFlight)
    => frame[w1].participant_code # frame[w2].participant_code

\* C3: once the handler of a connection has ended, every HTTP client created
\* by a join on that connection has been closed once and is no longer in the
\* registry, and no connection entry refers to the connection.
C3_CloseRemovesSessions ==
  \A ws \in Conns :
    pc[ws] = "closed" =>
      /\ \A i \in DOMAIN clients :
           clients[i].ws = ws =>
             /\ clients[i].closes = 1
             /\ \A code \in DOMAIN participant_sessions :
                  participant_sessions[code] # i
      /\ \A code \in DOMAIN participant_connections :
           participant_connections[code] # ws

\* C4: cleanup_connection is idempotent: in every reachable registry state
\* and for every participant code (None and the empty string included), a
\* second cleanup leaves the registry, close counts included, as the first
\* left it.
C4_CleanupIdempotent ==
  \A code \in Codes \cup {None, ""} :
    LET once == cleanup_connection(Registry, code) IN
    cleanup_connection(once, code) = once
\* A handler has ended and its cleanup has closed the client of its code.
C4_Witness ==
  \E ws \in Conns :
    /\ pc[ws] = "closed"
    /\ participant_code[ws] \in Codes
    /\ \E i \in DOMAIN clients :
         clients[i].code = participant_code[ws] /\ clients[i].closes = 1
    /\ participant_code[ws] \notin DOMAIN participant_sessions

\* C5: a task never posts the field names of an earlier action page: the
\* names in the body of a submission in flight are the field names of the
\* page at the URL the body is posted to (the cursor).
C5_PostsFieldsOfCursorPage ==
  \A ws \in Conns :
    (pc[ws] = "submit_post" /\ DOMAIN frame[ws].task_data # {})
    => DOMAIN frame[ws].task_data =
         {FieldsOf(PathOf(frame[ws].url))[i] :
            i \in 1..Len(FieldsOf(PathOf(frame[ws].url)))}

\* C6: a join whose redirect chain ends at an action page sends exactly one
\* phase-transition event, with phase 1 and the field names of that page:
\* also when the first redirect target answers with a second redirect (to
\* the action page).
C6_JoinAnnouncesActionPage ==
  [][\A ws \in Conns :
       LET code == frame[ws].participant_code
           announced(fields) ==
             /\ Len(Sent(ws)) = 1
             /\ IsPhaseEvent(Sent(ws)[1])
             /\ Sent(ws)[1].participant_code = code
             /\ Sent(ws)[1].phase = 1
             /\ Sent(ws)[1].required_fields = fields
       IN
       /\ (JoinTaskServed(ws) /\ FieldsOf(PathOf(frame[ws].url)) # << >>
             /\ participant_connections[code] = ws)
          => announced(FieldsOf(PathOf(frame[ws].url)))
       /\ \A loc \in Locations :
            (JoinTaskRedirect(ws, loc)
               /\ FieldsOf(PathOf(ResolveLocation(loc))) # << >>
               /\ participant_connections[code] = ws)
            => announced(FieldsOf(PathOf(ResolveLocation(loc))))
    ]_vars

\* C7: when a navigation run is redirected to the terminal URL, by the
\* answer to a GET of the cursor or by the answer to the click-through of an
\* informational page, the run ends there and one game-over event is sent.
GameOverSentTo(code) ==
  \E ws \in Conns : \E m \in SeqRange(Sent(ws)) :
    IsGameOver(m) /\ m.participant_code = code
C7_TerminalUrlEndsRun ==
  [][\A ws \in Conns : \A loc \in Locations :
       ( /\ IsOutOfRange(ResolveLocation(loc))
         /\ (NavGetRedirect(ws, loc) \/ NavContinueRedirect(ws, loc))
         /\ frame[ws].participant_code \in DOMAIN participant_connections
         /\ IsOpen(participant_connections[frame[ws].participant_code]) )
       => /\ pc'[ws] = "idle"
          /\ GameOverSentTo(frame[ws].participant_code)
    ]_vars

\* C8: once a game-over event has been sent for the session of a
\* participant, no task message for that participant leads to an HTTP
\* request.
GameOverDelivered(code) ==
  \E ws \in Conns : \E m \in SeqRange(outbox[ws]) :
    IsGameOver(m) /\ m.participant_code = code /\ m.session = SessionOf(code)
C8_NoRequestAfterGameOver ==
  \A ws \in Conns :
    pc[ws] = "submit_post" => ~GameOverDelivered(frame[ws].participant_code)

\* C9: a task message that names a participant code without a session is
\* answered by exactly one error message on the sending connection; no HTTP
\* request is made (the handler is back at the message loop) and the
\* registry is unchanged.
C9_TaskWithoutSession ==
  [][\A ws \in Conns : \A data \in TaskMessages :
       ( /\ data.participant_code \in Codes
         /\ data.participant_code \notin DOMAIN participant_sessions
         /\ handle_task(ws, data) )
       => /\ pc'[ws] = "idle"
          /\ Len(Sent(ws)) = 1 /\ IsError(Sent(ws)[1])
          /\ \A other \in Conns \ {ws} : outbox'[other] = outbox[other]
          /\ UNCHANGED registry
    ]_vars
\* A well-formed task for a code without a session was answered with the
\* error of the failed session lookup.
C9_Witness ==
  \E ws \in Conns :
    /\ pc[ws] = "idle"
    /\ participant_code[ws] \in Codes
    /\ participant_code[ws] \notin DOMAIN participant_sessions
    /\ outbox[ws] # << >>
    /\ outbox[ws][Len(outbox[ws])] =
         [type |-> "error", message |-> "Error submitting task: KeyError"]

\* C10: a navigation run that ends on an unrecognized response, or with its
\* attempts used up, sends an error message to the participant's connection.
ErrorSentTo(code) ==
  /\ code \in DOMAIN participant_connections
  /\ \E m \in SeqRange(Sent(participant_connections[code])) : IsError(m)
AttemptsUsedUp(ws) == frame[ws].attempt + 1 = max_attempts
C10_NavigationFailureIsReported ==
  [][\A ws \in Conns :
       ( /\ \/ NavGetUnexpected(ws)
            \/ NavSleepDone(ws) /\ AttemptsUsedUp(ws)
         /\ frame[ws].participant_code \in DOMAIN participant_connections
         /\ IsOpen(participant_connections[frame[ws].participant_code]) )
       => ErrorSentTo(frame[ws].participant_code)
    ]_vars

\* C13: when a connection closes, the registry entries of every participant
\* code that is registered to another connection stay as they are: the
\* connection reference, the HTTP client (and its close count), the cursor
\* URL, the field list and the phase counter.
EntryOf(reg, code) ==
  [present |-> <<code \in DOMAIN reg.participant_connections,
                 code \in DOMAIN reg.participant_sessions,
                 code \in DOMAIN reg.participant_urls,
                 code \in DOMAIN reg.form_fields,
                 code \in DOMAIN reg.participant_phases>>,
   connection |-> Get(reg.participant_connections, code, None),
   session |-> Get(reg.participant_sessions, code, 0),
   url |-> Get(reg.participant_urls, code, NoUrl),
   fields |-> Get(reg.form_fields, code, << >>),
   phase |-> Get(reg.participant_phases, code, 0),
   closes |-> IF code \in DOMAIN reg.participant_sessions
              THEN reg.clients[reg.participant_sessions[code]].closes
              ELSE 0]
C13_CloseLeavesOthersAlone ==
  [][\A ws \in Conns :
       handle_websocket_finally(ws)
       => \A code \in Codes :
            ( /\ code \in DOMAIN participant_connections
              /\ participant_connections[code] # ws )
            => EntryOf(Registry, code) = EntryOf(Registry', code)
    ]_vars

\* C14: of the HTTP clients created for one participant code, at most one
\* has not been closed.
LiveClients(code) ==
  {i \in DOMAIN clients : clients[i].code = code /\ clients[i].closes = 0}
C14_OneLiveSessionPerCode ==
  \A code \in Codes : Cardinality(LiveClients(code)) <= 1

\* C15: while a participant code has a phase counter, a step leaves the
\* counter as it is or raises it by exactly 1.
C15_PhaseCounterNeverDecreases ==
  [][\A code \in Codes :
       ( /\ code \in DOMAIN participant_phases
         /\ code \in DOMAIN participant_phases' )
       => participant_phases'[code] \in
            {participant_phases[code], participant_phases[code] + 1}
    ]_vars

\* C16: an informational page (state payload, no input fields) that is
\* reached after the click-through of an informational page is reported
\* with a round-result event and clicked through with an empty-form POST to
\* its URL.
IsResult(m) == m.type = "event" /\ m.eventType = "round-result"
IsInformational(page) == HasOtreeData(page) /\ FieldsOf(page) = << >>
ResultSentTo(code) ==
  \E ws \in Conns : \E m \in SeqRange(Sent(ws)) :
    IsResult(m) /\ m.participant_code = code
C16_EveryInformationalPageIsReported ==
  [][\A ws \in Conns : \A page \in Paths :
       ( /\ IsInformational(page)
         /\ NavRedirectPage(ws, page)
         /\ frame[ws].participant_code \in DOMAIN participant_connections
         /\ IsOpen(participant_connections[frame[ws].participant_code]) )
       => /\ ResultSentTo(frame[ws].participant_code)
          /\ pc'[ws] = "nav_post_continue"
          /\ frame'[ws].url = frame[ws].url
    ]_vars

\* C17: a message that is not valid JSON, or that lacks participant_code or
\* participant_id (the key is not there, or its value is empty or null), is
\* answered by exactly one error message on its connection; the registry is
\* unchanged and the connection waits for its next message.
LacksMandatoryField(data) ==
  \/ data.participant_code \in {"", Missing}
  \/ data.participant_id \in {None, Missing}
AnsweredByOneError(ws) ==
  /\ Len(Sent(ws)) = 1 /\ IsError(Sent(ws)[1])
  /\ \A other \in Conns \ {ws} : outbox'[other] = outbox[other]
C17_MalformedMessageIsRecoverable ==
  [][\A ws \in Conns :
       ( /\ pc[ws] = "idle"
         /\ received' # received
         /\ \/ ReceiveInvalidJson(ws)
            \/ \E data \in {m \in JoinMessages \cup TaskMessages :
                               LacksMandatoryField(m)} :
                 process_message(ws, data) )
       => /\ AnsweredByOneError(ws)
          /\ UNCHANGED registry
          /\ pc'[ws] = "idle"
    ]_vars
\* A connection whose first message was malformed was sent the error and
\* then, after a join on it, the phase event of the action page.
C17_Witness ==
  \E ws \in Conns :
    /\ Len(outbox[ws]) >= 2
    /\ outbox[ws][1] \in
         {[type |-> "error", message |-> "Invalid JSON"],
          [type |-> "error", message |->
             "Participant code and ID are required for join message."],
          [type |-> "error", message |-> "Missing required fields for task"],
          [type |-> "error", message |-> "Error: KeyError"]}
    /\ IsPhaseEvent(outbox[ws][2])

\* C18: a submission whose POST fails or is not answered by a redirect ends
\* with exactly one error message; no further request is made (the handler
\* is back at the message loop), and the registry, with the cursor URL, the
\* field list and the phase counter, is unchanged.
C18_FailedSubmissionIsNotRetried ==
  [][\A ws \in Conns :
       SubmitFailed(ws)
       => /\ AnsweredByOneError(ws)
          /\ UNCHANGED registry
          /\ pc'[ws] = "idle"
    ]_vars
\* After the error of a failed submission, the next task message of the
\* connection is posted to the unchanged cursor.
C18_Witness ==
  \E ws \in Conns :
    /\ pc[ws] = "submit_post"
    /\ outbox[ws] # << >>
    /\ outbox[ws][Len(outbox[ws])] =
         [type |-> "error", message |-> "Failed to submit task"]
    /\ frame[ws].url = participant_urls[frame[ws].participant_code]
    /\ DOMAIN frame[ws].task_data # {}

\* C20: once the phase event of an action page has been sent for a
\* participant, the bridge is at rest for that participant until a task
\* message arrives: at the step that sends the event no join, submission or
\* navigation for that participant code is left in flight (one that is would
\* go on to request pages and to move the cursor, the field list and the
\* phase counter without any task message).
PhaseEventSentFor(code) ==
  \E ws \in Conns : \E m \in SeqRange(Sent(ws)) :
    IsPhaseEvent(m) /\ m.participant_code = code
C20_AtRestAfterPhaseEvent ==
  [][\A code \in Codes :
       PhaseEventSentFor(code)
       => \A ws \in Conns :
            pc'[ws] \in InFlight => frame'[ws].participant_code # code
    ]_vars

\* C11: a run of navigate_experiment requests its cursor at most
\* max_attempts times, a run of wait_for_results_and_notify at most
\* Client_max_attempts times, and the run returns to the message loop,
\* whatever the application answers; meanwhile the other connection is
\* served.
NavigationAwaits == {"nav_get", "nav_get_next", "nav_sleep",
                     "nav_post_continue", "nav_get_redirect"}
WaitAwaits == {"wait_get", "wait_sleep", "wait_get_results",
               "wait_post_results"}
CursorFetchesBounded ==
  \A ws \in Conns :
    /\ pc[ws] \in NavigationAwaits => frame[ws].attempt + 1 <= max_attempts
    /\ pc[ws] \in WaitAwaits => frame[ws].attempt + 1 <= Client_max_attempts
OthersAreServed ==
  \A ws, other \in Conns :
    ( /\ pc[ws] \in NavigationAwaits \cup WaitAwaits
      /\ other # ws /\ pc[other] = "idle" /\ received < MaxMessages )
    => ENABLED ReceiveInvalidJson(other)
C11_NavigationTerminates ==
  /\ []CursorFetchesBounded
  /\ []OthersAreServed
  /\ \A ws \in Conns :
       (pc[ws] \in NavigationAwaits \cup WaitAwaits) ~> (pc[ws] = "idle")
\* A run is in the sleep of its last poll while the other connection has
\* been answered.
C11_Witness ==
  /\ \/ pc["ws1"] = "nav_sleep" /\ frame["ws1"].attempt + 1 = max_attempts
     \/ pc["ws1"] = "wait_sleep"
          /\ frame["ws1"].attempt + 1 = Client_max_attempts
  /\ outbox["ws2"] # << >>

\* C12: while the cursor answers with the wait-page marker, each poll
\* requests the same cursor URL again, counts one attempt, sends nothing and
\* leaves the registry (phase counter and field list included) unchanged;
\* the redirect that ends the polling is followed to its target.
PollStep(ws) ==
  \/ NavGetWaitPage(ws)
  \/ NavSleepDone(ws)
  \/ Client_WaitGetWaitPage(ws)
  \/ Client_WaitSleepDone(ws)
RedirectStep(ws, loc) ==
  NavGetRedirect(ws, loc) \/ Client_WaitGetRedirect(ws, loc)
C12_PollingIsSilent ==
  [][\A ws \in Conns :
       /\ PollStep(ws)
          => /\ UNCHANGED <<registry, outbox>>
             /\ pc'[ws] \in {"nav_sleep", "wait_sleep"}
                  => frame'[ws] = frame[ws]
             /\ pc'[ws] \in {"nav_get", "wait_get"}
                  => /\ frame'[ws].current_url = frame[ws].current_url
                     /\ frame'[ws].attempt = frame[ws].attempt + 1
             /\ pc'[ws] \in {"nav_sleep", "wait_sleep", "nav_get",
                             "wait_get", "idle"}
       /\ \A loc \in Locations :
            RedirectStep(ws, loc)
            => /\ UNCHANGED <<registry, outbox>>
               /\ pc'[ws] \in {"nav_get_next", "wait_get_results"}
               /\ frame'[ws].url = ResolveLocation(loc)
               /\ frame'[ws].attempt = frame[ws].attempt
    ]_vars
\* wait_for_results_and_notify has polled the wait page three times and
\* follows the redirect of its fourth request.
C12_Witness ==
  \E ws \in Conns :
    /\ pc[ws] = "wait_get_results"
    /\ frame[ws].attempt = 3
    /\ IsWaitPage(PathOf(frame[ws].current_url))
    /\ frame[ws].url # frame[ws].current_url
    /\ frame[ws].current_url = participant_urls[frame[ws].participant_code]

\* C19: a step that sends an event has the same effect on the cursor URL,
\* the field list, the phase counter and on what the handler does next
\* (return, or the next HTTP request) whether the send succeeds or fails on
\* a closed connection; a failed send only leaves the outbox as it is, and
\* handle_join returns the participant code (no exception reached it).
SendFails(code) ==
  /\ code \in DOMAIN participant_connections
  /\ ~IsOpen(participant_connections[code])
IsActionPage(page) == FieldsOf(page) # << >> /\ HasOtreeData(page)
PageRecorded(ws, code, page) ==
  /\ participant_urls' = Put(participant_urls, code, frame[ws].url)
  /\ form_fields' = Put(form_fields, code, FieldsOf(page))
  /\ UNCHANGED <<participant_connections, participant_sessions, clients>>
ActionPageOutcome(ws, code, page) ==
  /\ PageRecorded(ws, code, page)
  /\ participant_phases' =
       [participant_phases EXCEPT ![code] = participant_phases[code] + 1]
  /\ pc'[ws] = "idle"
InformationalPageOutcome(ws, code, page, await) ==
  /\ pc'[ws] = await
  /\ frame'[ws].url = frame[ws].url
  /\ UNCHANGED participant_phases
SendOutcome(ws, code) ==
  /\ \A page \in Paths :
       /\ ( /\ IsActionPage(page) /\ code \in DOMAIN participant_phases
            /\ (NavNextPage(ws, page) \/ NavRedirectPage(ws, page)) )
          => ActionPageOutcome(ws, code, page)
       /\ (IsInformational(page) /\ NavNextPage(ws, page))
          => /\ PageRecorded(ws, code, page)
             /\ InformationalPageOutcome(ws, code, page, "nav_post_continue")
       /\ (HasOtreeData(page) /\ Client_ResultsPage(ws, page))
          => /\ UNCHANGED registry
             /\ InformationalPageOutcome(ws, code, page, "wait_post_results")
  /\ ( /\ pc[ws] = "join_get_task"
       /\ IsActionPage(PathOf(frame[ws].url))
       /\ code \in DOMAIN participant_phases
       /\ JoinTaskServed(ws) )
     => /\ ActionPageOutcome(ws, code, PathOf(frame[ws].url))
        /\ participant_code'[ws] = code
  /\ ( /\ pc[ws] = "join_get_task"
       /\ HasOtreeData(PathOf(frame[ws].url))
       /\ Client_JoinTaskServed(ws) )
     => /\ PageRecorded(ws, code, PathOf(frame[ws].url))
        /\ UNCHANGED participant_phases
        /\ pc'[ws] = "idle" /\ participant_code'[ws] = code
  /\ ( \/ \E loc \in Locations :
            IsOutOfRange(ResolveLocation(loc)) /\ NavContinueRedirect(ws, loc)
       \/ Client_ResultsPostRedirect(ws) )
     => UNCHANGED registry /\ pc'[ws] = "idle"
SendingStep(ws) ==
  \/ \E page \in Paths :
       \/ IsActionPage(page) /\ NavNextPage(ws, page)
       \/ IsActionPage(page) /\ NavRedirectPage(ws, page)
       \/ IsInformational(page) /\ NavNextPage(ws, page)
       \/ HasOtreeData(page) /\ Client_ResultsPage(ws, page)
  \/ /\ pc[ws] = "join_get_task"
     /\ IsActionPage(PathOf(frame[ws].url))
     /\ JoinTaskServed(ws)
  \/ /\ pc[ws] = "join_get_task"
     /\ HasOtreeData(PathOf(frame[ws].url))
     /\ Client_JoinTaskServed(ws)
  \/ \E loc \in Locations :
       IsOutOfRange(ResolveLocation(loc)) /\ NavContinueRedirect(ws, loc)
  \/ Client_ResultsPostRedirect(ws)
C19_FailedSendChangesNothing ==
  [][\A ws \in Conns :
       /\ SendOutcome(ws, frame[ws].participant_code)
       /\ (SendingStep(ws) /\ SendFails(frame[ws].participant_code))
          => outbox' = outbox
    ]_vars
\* The second action page of a participant has been counted although its
\* connection is closed: the phase event could not be sent.
C19_Witness ==
  \E code \in Codes :
    /\ SendFails(code)
    /\ code \in DOMAIN participant_phases /\ participant_phases[code] = 2
    /\ \A ws \in Conns : \A m \in SeqRange(outbox[ws]) :
         (IsPhaseEvent(m) /\ m.participant_code = code) => m.phase = 1

\* C21: the participant_id in the data of every phase event of a session is
\* the participant_id of the join message that created the session, whatever
\* ids later task messages carry and whatever keys the page's state payload
\* has.
C21_PhaseEventCarriesJoinId ==
  \A ws \in Conns : \A i \in DOMAIN outbox[ws] :
    LET m == outbox[ws][i] IN
    (IsPhaseEvent(m) /\ m.session \in DOMAIN clients)
    => m.participant_id = clients[m.session].participant_id

\* C22: no HTTP client has close() called on it more than once, and a
\* cleanup that finds a client registered for its participant code closes
\* that client and removes its entry.
C22_ClosedOnceByCleanup ==
  /\ [](\A i \in DOMAIN clients : clients[i].closes <= 1)
  /\ [][\A ws \in Conns : \A code \in Codes :
          ( /\ pc[ws] = "idle" /\ pc'[ws] = "closed"
            /\ participant_code[ws] = code
            /\ code \in DOMAIN participant_sessions )
          => /\ clients'[participant_sessions[code]].closes = 1
             /\ code \notin DOMAIN participant_sessions'
       ]_vars
\* Two HTTP clients were created by joins and each was closed by a cleanup.
C22_Witness ==
  \E i, j \in DOMAIN clients :
    i # j /\ clients[i].closes = 1 /\ clients[j].closes = 1

\* C23: when the initial navigation of a join fails, the session is
\* destroyed: once handle_join has returned, the HTTP client the join
\* created has been closed and none of the five maps has the code as a key.
C23_FailedJoinDestroysSession ==
  [][\A ws \in Conns :
       (pc[ws] = "join_send_error" /\ pc'[ws] = "idle")
       => LET code == frame[ws].participant_code IN
          /\ \A i \in DOMAIN clients' :
               (clients'[i].code = code /\ clients'[i].ws = ws)
               => clients'[i].closes = 1
          /\ code \notin DOMAIN participant_connections'
          /\ code \notin DOMAIN participant_sessions'
          /\ code \notin DOMAIN participant_urls'
          /\ code \notin DOMAIN form_fields'
          /\ code \notin DOMAIN participant_phases'
    ]_vars

\* C24: a navigation that resumes after the session of its participant code
\* was cleaned up (no connection and no HTTP client is registered for the
\* code) ends as a no-op: nothing is sent on any connection and no registry
\* map is written.
C24_ResumeAfterCleanupIsNoOp ==
  [][\A ws \in Conns :
       ( /\ pc[ws] \in NavigationAwaits
         /\ pc'[ws] # pc[ws]
         /\ frame[ws].participant_code \notin DOMAIN participant_connections
         /\ frame[ws].participant_code \notin DOMAIN participant_sessions )
       => /\ outbox' = outbox
          /\ UNCHANGED registry
    ]_vars

\* C25: a participant code that was joined again on a new connection keeps
\* the session of the new connection when the old connection is closed: the
\* connection reference, the HTTP client (registered and not closed), the
\* cursor URL, the field list and the phase counter stay as they are.
C25_RejoinSurvivesOldClose ==
  [][\A old \in Conns : \A code \in Codes :
       ( /\ pc[old] = "idle" /\ pc'[old] = "closed"
         /\ code \in DOMAIN participant_connections
         /\ participant_connections[code] # old
         /\ code \in DOMAIN participant_sessions
         /\ clients[participant_sessions[code]].ws = participant_connections[code]
         /\ \E i \in DOMAIN clients :
              clients[i].code = code /\ clients[i].ws = old )
       => /\ code \in DOMAIN participant_connections'
          /\ participant_connections'[code] = participant_connections[code]
          /\ code \in DOMAIN participant_sessions'
          /\ participant_sessions'[code] = participant_sessions[code]
          /\ clients'[participant_sessions[code]].closes = 0
          /\ (code \in DOMAIN participant_urls
                => /\ code \in DOMAIN participant_urls'
                   /\ participant_urls'[code] = participant_urls[code])
          /\ (code \in DOMAIN form_fields
                => /\ code \in DOMAIN form_fields'
                   /\ form_fields'[code] = form_fields[code])
          /\ (code \in DOMAIN participant_phases
                => /\ code \in DOMAIN participant_phases'
                   /\ participant_phases'[code] = participant_phases[code])
    ]_vars

\* C26: a join registers and a cleanup removes the connection reference and
\* the HTTP client of a code without a suspension point in between: whenever
\* the coroutines are suspended, a code is a key of participant_connections
\* if and only if it is a key of participant_sessions.
C26_ConnectionIffSession ==
  DOMAIN participant_connections = DOMAIN participant_sessions
\* One code is registered by a join that is suspended in an HTTP request,
\* while the entries of another code were removed by a failed join and a
\* cleanup has closed a client.
C26_Witness ==
  /\ \E ws \in Conns : \E code \in Codes :
       /\ pc[ws] \in {"join_get_init", "join_get_task"}
       /\ frame[ws].participant_code = code
       /\ code \in DOMAIN participant_connections
       /\ code \in DOMAIN participant_sessions
  /\ \E code \in Codes :
       /\ code \notin DOMAIN participant_connections
       /\ code \in DOMAIN participant_phases
  /\ \E i \in DOMAIN clients : clients[i].closes = 1

\* C27: every parse of a page, at join or during navigation, replaces the
\* field list of the participant: afterwards the list holds the field names
\* of the page just parsed, in page order, and nothing of the list before.
C27_FieldListIsReplaced ==
  [][\A ws \in Conns :
       LET code == frame[ws].participant_code IN
       /\ JoinTaskServed(ws)
            => form_fields'[code] = FieldsOf(PathOf(frame[ws].url))
       /\ \A loc \in Solo_Locations :
            JoinTaskRedirect(ws, loc) => form_fields'[code] = << >>
       /\ \A page \in Solo_Paths :
            (NavNextPage(ws, page) \/ NavRedirectPage(ws, page))
            => form_fields'[code] = FieldsOf(page)
    ]_vars
\* The participant was sent the phase event of the survey page, and the
\* field list of the same session is now that of the contribution page.
C27_Witness ==
  \E ws \in Conns : \E i \in DOMAIN outbox[ws] :
    LET m == outbox[ws][i] IN
    /\ IsPhaseEvent(m)
    /\ m.required_fields = FieldsOf(SurveyPath)
    /\ m.participant_code \in DOMAIN form_fields
    /\ form_fields[m.participant_code] = FieldsOf(ContributePath)
    /\ SessionOf(m.participant_code) = m.session

\* C28: a task is submitted before it is navigated, and navigated only when
\* the submission succeeded: a navigation request is made only by a handler
\* that was in the POST or is already navigating, a failed POST takes the
\* handler back to the message loop, and after a POST answered by a redirect
\* the resolved target is the cursor URL and the URL of the first fetch.
C28_NavigationFollowsSubmission ==
  [][\A ws \in Conns :
       /\ pc'[ws] \in NavigationAwaits \cup WaitAwaits
            => pc[ws] \in NavigationAwaits \cup WaitAwaits \cup {"submit_post"}
       /\ (SubmitFailed(ws) \/ Client_SubmitFailed(ws)) => pc'[ws] = "idle"
       /\ \A loc \in Locations :
            (SubmitRedirect(ws, loc) \/ Client_SubmitRedirect(ws, loc))
            => LET code == frame[ws].participant_code
                   target == IF loc[1] = otree_url
                             THEN loc ELSE <<otree_url>> \o loc
               IN
               /\ participant_urls'[code] = target
               /\ pc'[ws] \in {"nav_get", "wait_get", "idle"}
               /\ pc'[ws] # "idle"
                    => /\ frame'[ws].current_url = target
                       /\ frame'[ws].attempt = 0
    ]_vars
\* A connection whose first task failed was sent the error, and its next
\* task is in the first fetch of its navigation, at the cursor URL.
C28_Witness ==
  \E ws \in Conns :
    /\ pc[ws] \in {"nav_get", "wait_get"}
    /\ frame[ws].attempt = 0
    /\ frame[ws].participant_code \in DOMAIN participant_urls
    /\ participant_urls[frame[ws].participant_code] = frame[ws].current_url
    /\ \E i \in DOMAIN outbox[ws] :
         /\ IsError(outbox[ws][i])
         /\ outbox[ws][i].message \in
              {"Failed to submit task", "Failed to submit contribution"}

\* C29: the body posted for a task message has exactly one name/value pair
\* for each name of the participant's field list and no other key: type,
\* participant_code and participant_id are not sent unless the page has a
\* field of that name.
C29_BodyHasEveryField ==
  [][\A ws \in Conns : \A data \in Solo_Messages :
       (process_message(ws, data) /\ pc'[ws] = "submit_post")
       => LET body == PostedForm(frame'[ws].task_data)
              names == SeqRange(Get(form_fields, data.participant_code, << >>))
          IN
          /\ DOMAIN body = names
          /\ \A k \in {"type", "participant_code", "participant_id"} \ names :
               k \notin DOMAIN body
    ]_vars
\* C29 as amended: the body has no key that is not a name of the field list;
\* a name of the list is sent, once and with the message's value, when the
\* message has a value under it, and is not sent when the message lacks it.
C29_BodyHasTheFieldsOnly ==
  [][\A ws \in Conns : \A data \in Solo_Messages :
       (process_message(ws, data) /\ pc'[ws] = "submit_post")
       => LET body == PostedForm(frame'[ws].task_data)
              names == SeqRange(Get(form_fields, data.participant_code, << >>))
          IN
          /\ DOMAIN body \subseteq names
          /\ \A f \in names :
               IF f \in DOMAIN data /\ data[f] \notin {Missing, None}
               THEN f \in DOMAIN body /\ body[f] = data[f]
               ELSE f \notin DOMAIN body
          /\ \A k \in {"type", "participant_code", "participant_id"} \ names :
               k \notin DOMAIN body
    ]_vars
\* The form of the survey page is being posted: the body has the value of
\* the message for choice, once, and nothing for age, which the message
\* lacks.
C29_Witness ==
  \E ws \in Conns :
    /\ pc[ws] = "submit_post"
    /\ PathOf(frame[ws].url) = SurveyPath
    /\ DOMAIN frame[ws].task_data = {"choice", "age"}
    /\ DOMAIN PostedForm(frame[ws].task_data) = {"choice"}
    /\ PostedForm(frame[ws].task_data)["choice"] = "x"

\* C30: wherever the bridge follows a redirect (at join, after a submission,
\* in the navigation loop and after a click-through), the URL it goes to is
\* the Location value itself when that begins with "http", and the base URL
\* followed by the Location value otherwise.
C30_LocationIsResolved ==
  [][\A ws \in Conns : \A loc \in Solo_Locations :
       LET code == frame[ws].participant_code
           expected == IF Len(loc) = 1 THEN <<otree_url, loc[1]>> ELSE loc
       IN
       /\ JoinInitRedirect(ws, loc) => frame'[ws].url = expected
       /\ SubmitRedirect(ws, loc)
            => /\ participant_urls'[code] = expected
               /\ pc'[ws] = "nav_get" => frame'[ws].current_url = expected
       /\ NavGetRedirect(ws, loc) => frame'[ws].url = expected
       /\ (NavContinueRedirect(ws, loc) /\ pc'[ws] = "nav_get_redirect")
            => frame'[ws].url = expected
    ]_vars
\* The redirect that answered a task was a bare path and was resolved
\* against the base URL (it is the navigation's current_url), and the
\* navigation now fetches a Location that begins with "http" as it came.
C30_Witness ==
  \E ws \in Conns :
    /\ pc[ws] = "nav_get_next"
    /\ frame[ws].url = <<"httpdocs", SurveyPath>>
    /\ frame[ws].current_url = <<otree_url, WaitPath>>
    /\ \E i \in DOMAIN outbox[ws] : IsPhaseEvent(outbox[ws][i])

\* ------------------------------------------------ claims: game servers
\* The positions of the outboxes at which an event of the given type for the
\* given role (player id) stands.
Positions(ob) == UNION {{<<ws, i>> : i \in DOMAIN ob[ws]} : ws \in Conns}
GameEvents(eventType, role) ==
  {x \in Positions(outbox) :
     /\ outbox[x[1]][x[2]].type = "event"
     /\ outbox[x[1]][x[2]].eventType = eventType
     /\ outbox[x[1]][x[2]].role = role}
AllRoles == {"dictator", "receiver"} \cup {PlayerIds[i] : i \in DOMAIN PlayerIds}
\* waiting, first phase, payout, finished
Rank(state) ==
  CASE state = WAITING -> 0
    [] state \in {DECISION_PHASE, CONTRIBUTION_PHASE} -> 1
    [] state = PAYOUT_PHASE -> 2
    [] state = FINISHED -> 3

\* C31: in both game servers a game, once created, stays in self.games and
\* its state only moves forward along waiting, first phase, payout, finished:
\* a step leaves the state where it is or moves it to the next one, so no
\* step moves it back and each transition happens at most once; and for
\* every role at most one game-started event and at most one game-over event
\* is ever sent.
C31_StateMovesForwardOnce ==
  /\ [](\A role \in AllRoles :
          /\ Cardinality(GameEvents("game-started", role)) <= 1
          /\ Cardinality(GameEvents("game-over", role)) <= 1)
  /\ [][\A g \in DOMAIN games :
          /\ g \in DOMAIN games'
          /\ Rank(games'[g].state) \in
               {Rank(games[g].state), Rank(games[g].state) + 1}]_vars
\* A public goods game is finished and both players have been told.
C31_Witness ==
  /\ bridge = "public_goods"
  /\ TheGame \in DOMAIN games
  /\ games[TheGame].state = FINISHED
  /\ \A role \in Keys(games[TheGame].players) :
       Cardinality(GameEvents("game-over", role)) = 1

\* C32: a game is finished only after every joined player has sent a done
\* action while the game was in the payout phase: in a finished game, for
\* every role a done action for that role was received in the payout phase
\* on the connection that joined as that role.
C32_FinishedAfterEveryPlayerDone ==
  \A g \in DOMAIN games :
    games[g].state = FINISHED =>
      \A i \in DOMAIN games[g].players :
        <<games[g].players[i].role, games[g].players[i].by>>
          \in games[g].done_in_payout

\* lo <= c <= hi for a float c
InRange(c, lo, hi) == ~c.nan /\ lo <= c.v /\ c.v <= hi
\* The step is the handler of ws running the message data.
GameStepOf(ws, data) ==
  /\ received' # received
  /\ pc[ws] = "idle"
  /\ Handled(ws, IF bridge = "dictator" THEN Dictator_handle(ws, data)
                 ELSE PG_handle(ws, data))
\* The step has answered ws with one error message and has changed neither
\* a game nor the locals of a handler.
RefusedUnchanged(ws) ==
  /\ Len(Sent(ws)) = 1
  /\ Sent(ws)[1].type = "error"
  /\ \A other \in Conns \ {ws} : outbox'[other] = outbox[other]
  /\ games' = games
  /\ local' = local

\* C33: in the public goods server, whenever a game is in the payout phase
\* or finished, num_players players have joined and each has a recorded
\* contribution c with 0 <= c <= initial_endowment; and a contribution
\* message handled while the sender's game is not in the contribution phase
\* is answered with an error and changes nothing.
C33_PayoutOnlyOnCompleteContributions ==
  /\ [](bridge = "public_goods" =>
          \A g \in DOMAIN games :
            games[g].state \in {PAYOUT_PHASE, FINISHED} =>
              /\ Len(games[g].players) = num_players
              /\ \A player_id \in Keys(games[g].players) :
                   /\ player_id \in DOMAIN games[g].contributions
                   /\ InRange(games[g].contributions[player_id], 0,
                              initial_endowment))
  /\ [][bridge = "public_goods" =>
          \A ws \in Conns :
            (/\ received' # received
             /\ local[ws].game # None
             /\ games[local[ws].game].state # CONTRIBUTION_PHASE)
            => \A data \in Game_Messages :
                 (data.type = "contribution" /\ GameStepOf(ws, data))
                 => RefusedUnchanged(ws)]_vars

IsContributionResult(m, role) ==
  m.type = "event" /\ m.eventType = "contribution-result" /\ m.role = role
IsPhaseTwoStarted(m) ==
  m.type = "event" /\ m.eventType = "phase-started" /\ m.phase = 2

\* C34: in the public goods server every phase-started event of phase 2 on
\* a connection comes after the contribution-result event of the same player
\* on that connection; and in the step that begins the payout phase the
\* handler's sends are the contribution-result of every connected player
\* followed by the phase-started events, so no phase-started of phase 2 is
\* sent before every connected player has been sent its result.
C34_ResultsBeforePhaseTwo ==
  /\ [](bridge = "public_goods" =>
          \A ws \in Conns : \A i \in DOMAIN outbox[ws] :
            IsPhaseTwoStarted(outbox[ws][i]) =>
              \E j \in 1..(i - 1) :
                IsContributionResult(outbox[ws][j], outbox[ws][i].role))
  /\ [][bridge = "public_goods" =>
          \A g \in DOMAIN games :
            (games[g].state = CONTRIBUTION_PHASE /\
             games'[g].state = PAYOUT_PHASE) =>
              LET sends == PG_CompletionSends(games'[g])
              IN /\ \E ws \in Conns : outbox' = SendAll(outbox, ws, sends)
                 /\ \A i \in DOMAIN games'[g].players :
                      games'[g].players[i].ws # None =>
                        \E j \in DOMAIN sends :
                          /\ sends[j].to = games'[g].players[i].ws
                          /\ IsContributionResult(sends[j].msg,
                                                  games'[g].players[i].role)
                 /\ \A i, j \in DOMAIN sends :
                      (IsPhaseTwoStarted(sends[i].msg) /\
                       ~IsPhaseTwoStarted(sends[j].msg)) => j < i]_vars
\* Two connections hold one player each and both have been sent the
\* phase-started event of phase 2.
C34_Witness ==
  /\ bridge = "public_goods"
  /\ TheGame \in DOMAIN games
  /\ games[TheGame].state = PAYOUT_PHASE
  /\ \A ws \in Conns :
       /\ \E i \in DOMAIN games[TheGame].players :
            games[TheGame].players[i].ws = ws
       /\ \E i \in DOMAIN outbox[ws] : IsPhaseTwoStarted(outbox[ws][i])

\* The connection ws holds the role in the game: game.players[role] is ws.
Holds(game, ws, role) ==
  \E i \in DOMAIN game.players :
    game.players[i].role = role /\ game.players[i].ws = ws
\* money_send is a number with 0 <= money_send <= money_available.
IsValidAmount(x, limit) ==
  x # None /\ ~FloatRaises(x) /\ InRange(float(x), 0, limit)

\* C35: in the dictator server a decision message that does not come from
\* the connection holding the dictator role, or comes while the game is not
\* in the decision phase, or has no money_send with 0 <= money_send <=
\* money_available, is answered with an error and leaves the game and the
\* handlers' locals as they were; and money_sent is always between 0 and
\* money_available, with the dictator's payout and money_sent adding up to
\* money_available.
C35_DecisionOnlyFromDictatorInRange ==
  /\ [](bridge = "dictator" =>
          \A g \in DOMAIN games :
            /\ InRange(games[g].money_sent, 0, money_available)
            /\ Plus(Dictator_calculate_payouts(games[g])["dictator"],
                    games[g].money_sent) = Num(money_available))
  /\ [][bridge = "dictator" =>
          \A ws \in Conns :
            (received' # received /\ pc[ws] = "idle") =>
              \A data \in Game_Messages :
                (/\ data.type = "decision"
                 /\ GameStepOf(ws, data)
                 /\ ~(/\ TheGame \in DOMAIN games
                      /\ Holds(games[TheGame], ws, "dictator")
                      /\ games[TheGame].state = DECISION_PHASE
                      /\ IsValidAmount(data.money_send, money_available)))
                => RefusedUnchanged(ws)]_vars

IsResultEvent(m) ==
  m.type = "event" /\ m.eventType \in {"decision-result", "contribution-result"}
IsGameOverEvent(m) == m.type = "event" /\ m.eventType = "game-over"
\* What a game has recorded of its players' decisions.
Decisions(game) ==
  IF bridge = "dictator" THEN game.money_sent ELSE game.contributions

\* C36: in both game servers no step changes the recorded decisions of a
\* game that is in the payout phase or finished, and the payoff of every
\* game-over event equals the payoff of every result event (decision-result,
\* contribution-result) sent for the same role.
C36_PayoffToldTwiceIsTheSame ==
  /\ [](\A x, y \in Positions(outbox) :
          (/\ IsResultEvent(outbox[x[1]][x[2]])
           /\ IsGameOverEvent(outbox[y[1]][y[2]])
           /\ outbox[x[1]][x[2]].role = outbox[y[1]][y[2]].role)
          => outbox[x[1]][x[2]].payoff = outbox[y[1]][y[2]].payoff)
  /\ [][\A g \in DOMAIN games :
          games[g].state \in {PAYOUT_PHASE, FINISHED} =>
            /\ g \in DOMAIN games'
            /\ Decisions(games'[g]) = Decisions(games[g])]_vars
\* A connection has been sent a result event and the game-over event of the
\* same role, after a decision (contribution) other than the initial value.
C36_Witness ==
  \E x, y \in Positions(outbox) :
    /\ IsResultEvent(outbox[x[1]][x[2]])
    /\ IsGameOverEvent(outbox[y[1]][y[2]])
    /\ outbox[x[1]][x[2]].role = outbox[y[1]][y[2]].role
    /\ x[1] = y[1]
    /\ ~outbox[y[1]][y[2]].payoff.nan
    /\ outbox[y[1]][y[2]].payoff \notin
         {Num(money_available), Num(initial_endowment)}

\* The role a join with this recovery code asks for.
RoleAskedFor(recovery) ==
  IF bridge = "dictator"
  THEN (IF recovery_index(recovery) = 0 THEN "dictator" ELSE "receiver")
  ELSE PlayerIds[recovery_index(recovery) + 1]

\* C37: in both game servers a game never has more players than its
\* capacity, every role is held once, and the game has left the waiting
\* state exactly when all its players have joined; and a join for a game
\* that is full, or for a role that is taken, is answered with an error and
\* changes nothing: neither the game nor what the server holds for the
\* connection.
C37_JoinRespectsCapacityAndRoles ==
  /\ [](\A g \in DOMAIN games :
          /\ Len(games[g].players) <= num_players
          /\ \A i, j \in DOMAIN games[g].players :
               games[g].players[i].role = games[g].players[j].role => i = j
          /\ games[g].state # WAITING <=>
               Len(games[g].players) = num_players)
  /\ [][\A ws \in Conns :
          (received' # received /\ pc[ws] = "idle" /\ TheGame \in DOMAIN games)
          => \A data \in Game_Messages :
               (/\ data.type = "join"
                /\ data.gameId = TheGame
                /\ IsRecoveryCode(data.recovery)
                /\ GameStepOf(ws, data)
                /\ \/ Len(games[TheGame].players) >= num_players
                   \/ RoleAskedFor(data.recovery)
                        \in Keys(games[TheGame].players))
               => RefusedUnchanged(ws)]_vars

\* C38: in both game servers, when a connection closes, the step replaces by
\* None the connection of every role that connection holds and changes
\* nothing else of any game (roles, state, recorded decisions, done flags,
\* the connections of the other roles); no role is ever removed or given to
\* another connection, so a role once joined cannot be joined again; and no
\* role keeps a connection that has been closed, so later broadcasts skip the
\* player that has left.
C38_DisconnectOnlyClearsOwnConnection ==
  /\ [](\A g \in DOMAIN games : \A i \in DOMAIN games[g].players :
          games[g].players[i].ws # None => IsOpen(games[g].players[i].ws))
  /\ [][\A g \in DOMAIN games :
          /\ g \in DOMAIN games'
          /\ \A i \in DOMAIN games[g].players :
               /\ i \in DOMAIN games'[g].players
               /\ games'[g].players[i].role = games[g].players[i].role
               /\ games'[g].players[i].ws \in {games[g].players[i].ws, None}
          /\ \A ws \in Conns :
               (pc[ws] # "closed" /\ pc'[ws] = "closed") =>
                 games'[g] =
                   [games[g] EXCEPT !.players =
                      [i \in DOMAIN @ |->
                         IF @[i].ws = ws THEN [@[i] EXCEPT !.ws = None]
                         ELSE @[i]]]]_vars

====
